---- MODULE Spec2Model ----
(***************************************************************************)
(* Coverage comparison engine of codecov-api (services/comparison.py).     *)
(*                                                                         *)
(* The module models one FileComparison instance: its construction         *)
(* arguments, the FileComparisonTraverseManager loop it starts on the      *)
(* first read of a line-derived property, the two visitors, and the        *)
(* cached properties.  One TraverseStep is one iteration of the while      *)
(* loop of FileComparisonTraverseManager.apply.  A second part models the  *)
(* files generators of Comparison and PullRequestComparison and a caller   *)
(* that reads and iterates them, with the cache of files with changes. A   *)
(* third part models the pseudo-comparison properties, the reports and     *)
(* validate() of a comparison, and a fourth the two provider fetches that  *)
(* asyncio.gather joins and the properties that read their results.        *)
(*                                                                         *)
(* Python values are encoded as follows.                                   *)
(*   None / Optional   None == <<>>, Some(x) == <<x>>                      *)
(*   str (line value)  a sequence of one-character strings                 *)
(*   list / tuple      a sequence (Python index i is TLA+ index i+1)       *)
(*   dict / Counter    a function on the set of its keys                   *)
(***************************************************************************)
EXTENDS Integers, Sequences, FiniteSets, TLC

VARIABLES
    base_file,                  \* FileComparison.base_file: None or Some(_lines)
    head_file,                  \* FileComparison.head_file
    diff_data,                  \* FileComparison.diff_data: None or Some(dict)
    src,                        \* FileComparison.src: list of source lines
    bypass_max_diff,            \* FileComparison.bypass_max_diff
    should_search_for_changes,  \* None, Some(TRUE) or Some(FALSE)
    head_totals_diff,           \* head_file.totals.diff (written by totals)
    pc,                         \* "idle", "traversing", "raised"
    pending,                    \* the property read that is being served
    segments,                   \* FileComparisonTraverseManager.segments
    base_ln,                    \* FileComparisonTraverseManager.base_ln
    head_ln,                    \* FileComparisonTraverseManager.head_ln
    summary,                    \* CreateChangeSummaryVisitor.summary
    lines,                      \* CreateLineComparisonVisitor.lines
    calls,                      \* the visitor invocations made so far
    cached,                     \* instance __dict__ entries of cached_property
    returned,                   \* per property, the values reads returned
    traversals,                 \* number of times apply() was entered
    headers,                    \* the header of each segment, once read
    spin,                       \* 0, then 1 and 2 in turn for iterations at the cursor cap
    kind,                       \* the class of the comparison object
    head_report_files,          \* head_report.files: the file names
    changed_files,              \* the files whose change_summary is non-empty
    files_dict,                 \* __dict__["files"]: "none", "base" or "pr"
    gen_base,                   \* the generator made by Comparison.files
    gen_pr,                     \* the generator made by PullRequestComparison.files
    it,                         \* the generator the caller is iterating
    yielded,                    \* file names the current iteration has yielded
    reads,                      \* times the caller has read files
    iterations,                 \* what each exhausted iteration yielded
    redis_value,                \* the cached list of files with changes
    pull,                       \* the fields of the pull the cache key names
    diff_files,                 \* the files the provider diff has an entry for
    cached_changes,             \* __dict__["_files_with_changes"], once read
    cache_read,                 \* how that read went: "none", "ok", "failed"
    redis_sets,                 \* the redis.set calls the object has made
    head_updates,               \* times the head of the pull has moved
    file_comparison,            \* the file comparison made last
    repository_yaml,            \* pull.repository.yaml: None or a dict
    site_config,                \* the site allow_pseudo_compare setting
    pull_base,                  \* pull.base
    pull_compared_to,           \* pull.compared_to
    commit_records,             \* commit ids with a record in pull.repository
    base_build,                 \* what building the base report does
    head_build,                 \* what building the head report does
    compare_fails,              \* get_compare(base, head) raises
    pseudo_compare,             \* what get_compare(compared_to, base) does
    adjusts,                    \* does_diff_adjust_tracked_lines answers
    pull_outcomes,              \* what reads of its properties ended with
    update_outcomes,            \* what each update_base_report_with_pseudo_diff
                                \* call ended with
    shift_calls,                \* the calls of base_report.shift_lines_by_diff
    forward_commits,            \* get_compare(base, head)["commits"]
    reverse_commits,            \* get_compare(head, base)["commits"]
    commits_table,              \* the rows of Commit.objects
    comparison_coro,            \* "new", "running", "done" or "failed"
    reverse_comparison_coro,    \* the same for the reverse fetch
    fetch_pending,              \* the read that waits for the fetches
    fetch_dict,                 \* __dict__ entry of the fetched pair
    fetch_attempts,             \* times the fetches were started
    fetch_outcomes,             \* what reads that use the fetches ended with
    instance,                   \* __dict__ of a Comparison and what it built
    instance_calls,             \* the operations called on it, and how each
                                \* ended
    impacted_files,             \* the list passed to sort_impacted_files
    direction_value,            \* "ascending" or "descending"
    sorted_files,               \* what sort_impacted_files returned
    report_storage_path,        \* comparison.report_storage_path
    archive,                    \* what the archive holds under that path
    files_outcome,              \* what the read of ComparisonReport.files
                                \* ended with
    base_report_files,          \* base_report: None, or its files by name
    gfc_file_name,              \* the file_name get_file_comparison is given
    gfc_diff_data,              \* the entry of the diff for that name
    gfc_base_file,              \* the base_file of the FileComparison made
    file_report_lines,          \* the raw coverage value of each report line
    coverage_field              \* what the "coverage" field resolved to

fcvars == <<base_file, head_file, diff_data, src, bypass_max_diff,
            should_search_for_changes, head_totals_diff, pc, pending,
            segments, base_ln, head_ln, summary, lines, calls, cached,
            returned, traversals, headers, spin>>

cmpvars == <<kind, head_report_files, changed_files, files_dict, gen_base,
             gen_pr, it, yielded, reads, iterations, redis_value, pull,
             diff_files, cached_changes, cache_read, redis_sets,
             head_updates, file_comparison>>

pullvars == <<repository_yaml, site_config, pull_base, pull_compared_to,
              commit_records, base_build, head_build, compare_fails,
              pseudo_compare, adjusts, pull_outcomes, update_outcomes,
              shift_calls>>

fetchvars == <<forward_commits, reverse_commits, commits_table,
               comparison_coro, reverse_comparison_coro, fetch_pending,
               fetch_dict, fetch_attempts, fetch_outcomes>>

instvars == <<instance, instance_calls>>

sortvars == <<impacted_files, direction_value, sorted_files>>

archivevars == <<report_storage_path, archive, files_outcome>>

resolvevars == <<base_report_files, gfc_file_name, gfc_diff_data,
                 gfc_base_file>>

coveragevars == <<file_report_lines, coverage_field>>

purevars == <<sortvars, archivevars, resolvevars, coveragevars>>

restvars == <<pullvars, fetchvars, instvars, purevars>>

vars == <<fcvars, cmpvars, restvars>>

-----------------------------------------------------------------------------
(* Python values *)

None == <<>>
Some(x) == <<x>>
Get(o) == o[1]

Max(a, b) == IF a >= b THEN a ELSE b
Min(a, b) == IF a <= b THEN a ELSE b

RECURSIVE SumSeq(_)
SumSeq(s) == IF s = <<>> THEN 0 ELSE Head(s) + SumSeq(Tail(s))

-----------------------------------------------------------------------------
(* Program constants *)

MAX_DIFF_SIZE == 170

Buckets == {"hits", "misses", "partials"}

\* LineType of shared.utils.merge
Miss == "miss"
Hit == "hit"
Partial == "partial"

-----------------------------------------------------------------------------
(* Line classifier *)

\* str truthiness and first character: `line_value and line_value[0] == "+"`
IsAdded(line_value) ==
    /\ line_value # None
    /\ Get(line_value) # <<>>
    /\ Get(line_value)[1] = "+"

IsRemoved(line_value) ==
    /\ line_value # None
    /\ Get(line_value) # <<>>
    /\ Get(line_value)[1] = "-"

\* A raw coverage value: the int n, or the string "n/d".
IntCov(n) == [str |-> FALSE, n |-> n, d |-> 1]
FracCov(n, d) == [str |-> TRUE, n |-> n, d |-> d]

\* ceil(n/d) for d > 0
CeilDiv(n, d) == (n + d - 1) \div d

\* line_type: numeric 1 is a hit, numeric 0 a miss; a string is read as a
\* fraction, a miss when its ceiling is 0 and a partial otherwise.
LineType(cov) ==
    IF cov.str
    THEN IF CeilDiv(cov.n, cov.d) = 0 THEN Miss ELSE Partial
    ELSE IF cov.n = 0 THEN Miss ELSE Hit

coverage_type_map(t) ==
    CASE t = Hit -> "hits"
      [] t = Miss -> "misses"
      [] t = Partial -> "partials"

-----------------------------------------------------------------------------
(* Report files.  _lines is a list whose cells are None or a line record;  *)
(* a line record is kept as a list or, in old reports, as its JSON text.   *)

ListLine(cov) == Some([enc |-> "list", cov |-> cov])
JsonLine(cov) == Some([enc |-> "json", cov |-> cov])

\* json.loads of a stored line: the list [coverage, ...]
JsonLoads(cell) == <<cell.cov>>

\* ReportFile.eof: the number of the last line, plus 1
Eof(report_file) ==
    IF report_file = None THEN 0 ELSE Len(Get(report_file)) + 1

\* FileComparisonVisitor._get_line.  _lines[ln - 1] with ln = 0 is Python's
\* _lines[-1], the last cell; an index outside the list raises IndexError,
\* which is caught.
_get_line(report_file, ln) ==
    IF report_file = None \/ ln = None THEN None
    ELSE LET _lines == Get(report_file)
             n == Get(ln)
             idx == IF n = 0 THEN Len(_lines) ELSE n
         IN  IF idx < 1 \/ idx > Len(_lines) THEN None
             ELSE LET line == _lines[idx]
                  IN  IF line = None THEN None
                      ELSE IF Get(line).enc = "list"
                           THEN Some(<<Get(line).cov>>)
                           ELSE Some(JsonLoads(Get(line)))

-----------------------------------------------------------------------------
(* Diff segments.  A header cell is an int or a str holding an int.        *)

IntCell(v) == [str |-> FALSE, v |-> v]
StrCell(v) == [str |-> TRUE, v |-> v]

\* int(cell)
Int_(cell) == cell.v

\* Python truthiness of a header cell: 0 is falsy, every non-empty str is
\* truthy ("0" included).
Truthy(cell) == IF cell.str THEN TRUE ELSE cell.v # 0

\* int(cell or 1)
IntOr1(cell) == IF Truthy(cell) THEN Int_(cell) ELSE 1

\* FileComparisonTraverseManager.__init__: the initial cursors
InitLn(segs, i) ==
    IF segs # <<>> THEN Min(1, Int_(segs[1].header[i])) ELSE 1

\* dict.get(key, default)
DictGet(dict, key, default) ==
    IF key \in DOMAIN dict THEN dict[key] ELSE default

\* FileComparison.__init__: total_diff_length
total_diff_length ==
    IF diff_data # None /\ DictGet(Get(diff_data), "segments", <<>>) # <<>>
    THEN SumSeq([i \in 1..Len(Get(diff_data)["segments"]) |->
                    Len(Get(diff_data)["segments"][i].lines)])
    ELSE 0

head_file_eof == Eof(head_file)
base_file_eof == Eof(base_file)

-----------------------------------------------------------------------------
(* FileComparisonTraverseManager *)

\* traverse_finished with the end-of-file offsets taken as last line numbers
traverse_finished_Strict(segs, b, h) ==
    IF segs # <<>> THEN FALSE
    ELSE IF src # <<>> THEN h > Len(src)
    ELSE h > head_file_eof /\ b > base_file_eof

traverse_finished(segs, b, h) ==
    IF segs # <<>> THEN FALSE
    ELSE IF src # <<>> THEN h > Len(src)
    ELSE h >= head_file_eof /\ b >= base_file_eof

traversing_diff(segs, b, h) ==
    IF segs = <<>> THEN FALSE
    ELSE LET hd == segs[1].header
             base_ln_within_offset ==
                 /\ Int_(hd[1]) <= b
                 /\ b < Int_(hd[1]) + IntOr1(hd[2])
             head_ln_within_offset ==
                 /\ Int_(hd[3]) <= h
                 /\ h < Int_(hd[3]) + IntOr1(hd[4])
         IN  base_ln_within_offset \/ head_ln_within_offset

\* pop_line raises IndexError when it pops from an empty list or reads the
\* source past its end; src[-1] (head_ln = 0) is the last source line.
pop_line_raises(segs, b, h) ==
    IF traversing_diff(segs, b, h) THEN segs[1].lines = <<>>
    ELSE src # <<>> /\ h > Len(src)

pop_line(segs, b, h) ==
    IF traversing_diff(segs, b, h) THEN Some(Head(segs[1].lines))
    ELSE IF src # <<>> THEN Some(src[IF h = 0 THEN Len(src) ELSE h])
    ELSE None

\* the segments after pop_line
popped(segs, b, h) ==
    IF traversing_diff(segs, b, h)
    THEN [segs EXCEPT ![1].lines = Tail(@)]
    ELSE segs

\* the arguments apply() hands to every visitor in this iteration
visit_args_BothNumbers(segs, b, h) ==
    LET line_value == pop_line(segs, b, h)
    IN  [base_ln |-> Some(b),
         head_ln |-> Some(h),
         value |-> line_value,
         is_diff |-> traversing_diff(popped(segs, b, h), b, h)]

visit_args(segs, b, h) ==
    LET line_value == pop_line(segs, b, h)
    IN  [base_ln |-> IF IsAdded(line_value) THEN None ELSE Some(b),
         head_ln |-> IF IsRemoved(line_value) THEN None ELSE Some(h),
         value |-> line_value,
         is_diff |-> traversing_diff(popped(segs, b, h), b, h)]

\* the head cursor advanced for every line
next_head_ln_Always(line_value, h) == h + 1

\* the cursors after the iteration
next_base_ln(line_value, b) == IF IsAdded(line_value) THEN b ELSE b + 1
next_head_ln(line_value, h) == IF IsRemoved(line_value) THEN h ELSE h + 1

\* `if self.segments and not self.segments[0]["lines"]: self.segments.pop(0)`
drop_exhausted(segs) ==
    IF segs # <<>> /\ segs[1].lines = <<>> THEN Tail(segs) ELSE segs

-----------------------------------------------------------------------------
(* Visitors *)

\* Counter: a missing key reads as 0
Count(counter, k) == IF k \in DOMAIN counter THEN counter[k] ELSE 0

\* counter[k] += n
CounterAdd(counter, k, n) ==
    [x \in DOMAIN counter \cup {k} |->
        IF x = k THEN Count(counter, k) + n ELSE counter[x]]

\* _update_summary with the two signs exchanged
_update_summary_Swapped(counter, base_line, head_line) ==
    CounterAdd(
        CounterAdd(counter, coverage_type_map(LineType(base_line[1])), 1),
        coverage_type_map(LineType(head_line[1])), -1)

\* _update_summary without the decrement of the base bucket
_update_summary_HeadOnly(counter, base_line, head_line) ==
    CounterAdd(counter, coverage_type_map(LineType(head_line[1])), 1)

_update_summary(counter, base_line, head_line) ==
    CounterAdd(
        CounterAdd(counter, coverage_type_map(LineType(base_line[1])), -1),
        coverage_type_map(LineType(head_line[1])), 1)

\* CreateChangeSummaryVisitor.__call__
ChangeSummaryVisit_SkipsDiff(counter, a) ==
    IF IsAdded(a.value) \/ IsRemoved(a.value) \/ a.is_diff THEN counter
    ELSE LET base_line == _get_line(base_file, a.base_ln)
             head_line == _get_line(head_file, a.head_ln)
         IN  IF base_line = None \/ head_line = None THEN counter
             ELSE IF LineType(Get(base_line)[1]) = LineType(Get(head_line)[1])
                  THEN counter
                  ELSE _update_summary(counter, Get(base_line), Get(head_line))

ChangeSummaryVisit(counter, a) ==
    IF IsAdded(a.value) \/ IsRemoved(a.value) THEN counter
    ELSE LET base_line == _get_line(base_file, a.base_ln)
             head_line == _get_line(head_file, a.head_ln)
         IN  IF base_line = None \/ head_line = None THEN counter
             ELSE IF LineType(Get(base_line)[1]) = LineType(Get(head_line)[1])
                  THEN counter
                  ELSE _update_summary(counter, Get(base_line), Get(head_line))

LineComparison(base_line, head_line, b, h, value, is_diff) ==
    [base_line |-> base_line, head_line |-> head_line,
     base_ln |-> b, head_ln |-> h, value |-> value, is_diff |-> is_diff,
     added |-> IsAdded(value), removed |-> IsRemoved(value)]

\* CreateLineComparisonVisitor.__call__
LineComparisonVisit(acc, a) ==
    IF a.value = None THEN acc
    ELSE Append(acc,
            LineComparison(_get_line(base_file, a.base_ln),
                           _get_line(head_file, a.head_ln),
                           a.base_ln, a.head_ln, a.value, a.is_diff))

-----------------------------------------------------------------------------
(* Segment: the display segments built from a file's line comparisons *)

\* LineComparison.number
number(line) ==
    [base |-> IF ~line.added THEN line.base_ln ELSE None,
     head |-> IF ~line.removed THEN line.head_ln ELSE None]

\* `x or 0` for x None or an int
Or0(x) == IF x = None \/ Get(x) = 0 THEN 0 ELSE Get(x)

\* the loop of Segment.header over the lines, acc holding its five locals
RECURSIVE header_loop(_, _)
header_loop(ls, acc) ==
    IF ls = <<>> THEN acc
    ELSE LET line == Head(ls)
             starts ==
                [acc EXCEPT
                    !.base_start =
                        IF @ = None /\ number(line).base # None
                        THEN number(line).base ELSE @,
                    !.head_start =
                        IF @ = None /\ number(line).head # None
                        THEN number(line).head ELSE @]
         IN  header_loop(Tail(ls),
                IF line.added THEN [starts EXCEPT !.num_added = @ + 1]
                ELSE IF line.removed
                     THEN [starts EXCEPT !.num_removed = @ + 1]
                     ELSE [starts EXCEPT !.num_context = @ + 1])

\* Segment.header with the two counts exchanged
Segment_header_Exchanged(segment) ==
    LET r == header_loop(segment._lines,
                [base_start |-> None, head_start |-> None,
                 num_removed |-> 0, num_added |-> 0, num_context |-> 0])
    IN  <<Or0(r.base_start), r.num_context + r.num_added,
          Or0(r.head_start), r.num_context + r.num_removed>>

\* Segment.header
Segment_header(segment) ==
    LET r == header_loop(segment._lines,
                [base_start |-> None, head_start |-> None,
                 num_removed |-> 0, num_added |-> 0, num_context |-> 0])
    IN  <<Or0(r.base_start), r.num_context + r.num_removed,
          Or0(r.head_start), r.num_context + r.num_added>>

padding_lines == 3
line_distance == 6

\* LineComparison.coverage
coverage(line) ==
    [base |-> IF line.added \/ line.base_line = None
              THEN None ELSE Some(LineType(Get(line.base_line)[1])),
     head |-> IF line.removed \/ line.head_line = None
              THEN None ELSE Some(LineType(Get(line.head_line)[1]))]

\* line numbers of interest (coverage changed or code changed); idx is the
\* Python index plus 1
IsOfInterest(line) ==
    \/ coverage(line).base # coverage(line).head
    \/ line.added
    \/ line.removed

\* `[idx for idx, line in enumerate(lines) if ...]`, in ascending order
line_numbers(ls) ==
    LET found == {idx \in 1..Len(ls) : IsOfInterest(ls[idx])}
    IN  [k \in 1..Cardinality(found) |->
            CHOOSE idx \in found :
                Cardinality({j \in found : j < idx}) = k - 1]

\* the clustering loop with a gap of line_distance already splitting
RECURSIVE segmented_lines_Strict(_, _, _)
segmented_lines_Strict(nums, acc, last) ==
    IF nums = <<>> THEN acc
    ELSE LET line_number == Head(nums)
         IN  IF last = None \/ line_number - Get(last) < line_distance
             THEN segmented_lines_Strict(Tail(nums),
                      [acc EXCEPT ![Len(acc)] = Append(@, line_number)],
                      Some(line_number))
             ELSE segmented_lines_Strict(Tail(nums),
                      Append(acc, <<line_number>>), Some(line_number))

\* the clustering loop: acc is segmented_lines, last the previous number
RECURSIVE segmented_lines(_, _, _)
segmented_lines(nums, acc, last) ==
    IF nums = <<>> THEN acc
    ELSE LET line_number == Head(nums)
         IN  IF last = None \/ line_number - Get(last) <= line_distance
             THEN segmented_lines(Tail(nums),
                      [acc EXCEPT ![Len(acc)] = Append(@, line_number)],
                      Some(line_number))
             ELSE segmented_lines(Tail(nums),
                      Append(acc, <<line_number>>), Some(line_number))

\* Segment.segments with one more line of padding
Segment_segments_WidePadding(ls) ==
    LET nums == line_numbers(ls)
        groups == IF Len(nums) > 0
                  THEN segmented_lines(nums, <<<<>>>>, None)
                  ELSE <<>>
    IN  [g \in 1..Len(groups) |->
            LET group == groups[g]
                start_line_number == Max(group[1] - padding_lines - 1, 1)
                end_line_number ==
                    Min(group[Len(group)] + padding_lines + 1, Len(ls))
            IN  [_lines |-> SubSeq(ls, start_line_number, end_line_number)]]

\* Segment.segments(file_comparison), given file_comparison.lines
Segment_segments(ls) ==
    LET nums == line_numbers(ls)
        groups == IF Len(nums) > 0
                  THEN segmented_lines(nums, <<<<>>>>, None)
                  ELSE <<>>
    IN  [g \in 1..Len(groups) |->
            LET group == groups[g]
                start_line_number == Max(group[1] - padding_lines, 1)
                end_line_number ==
                    Min(group[Len(group)] + padding_lines, Len(ls))
            IN  [_lines |-> SubSeq(ls, start_line_number, end_line_number)]]

-----------------------------------------------------------------------------
(* FileComparison: the properties and the traversal they start *)

Props == {"totals", "lines", "change_summary", "has_changes", "segments"}

\* Python truthiness of diff_data (a dict from the provider always has keys)
DiffTruthy == diff_data # None /\ DOMAIN Get(diff_data) # {}

\* should_traverse with a missing hint read as "no changes"
should_traverse_OnlyWhenTrue ==
    \/ DiffTruthy
    \/ src # <<>>
    \/ should_search_for_changes = Some(TRUE)

\* should_traverse for files with a diff only
should_traverse_DiffOnly == DiffTruthy

\* should_traverse with the hint ignored
should_traverse_Always == TRUE

\* `if self.diff_data or self.src or self.should_search_for_changes is not False`
should_traverse ==
    \/ DiffTruthy
    \/ src # <<>>
    \/ should_search_for_changes # Some(FALSE)

\* lines_truncated with the threshold itself truncated
lines_truncated_AtThreshold ==
    total_diff_length >= MAX_DIFF_SIZE /\ ~bypass_max_diff

\* `self.total_diff_length > MAX_DIFF_SIZE and not self.bypass_max_diff`
lines_truncated ==
    total_diff_length > MAX_DIFF_SIZE /\ ~bypass_max_diff

\* the segments argument handed to FileComparisonTraverseManager
segments_argument ==
    IF DiffTruthy /\ "segments" \in DOMAIN Get(diff_data)
    THEN Get(diff_data)["segments"]
    ELSE <<>>

\* any(counter.values())
AnyValue(counter) == \E k \in DOMAIN counter : counter[k] # 0

\* Every threshold a cursor is compared with lies below LnCap, so all cursor
\* values from LnCap on behave alike; the model keeps a cursor at LnCap once
\* it gets there.  Only a traversal that never returns gets there
\* (CapOnlyWhenLooping).
RECURSIVE MaxSegEnd(_)
MaxSegEnd(segs) ==
    IF segs = <<>> THEN 0
    ELSE Max(Max(Int_(Head(segs).header[1]) + IntOr1(Head(segs).header[2]),
                 Int_(Head(segs).header[3]) + IntOr1(Head(segs).header[4])),
             MaxSegEnd(Tail(segs)))

LnThreshold ==
    Max(Max(head_file_eof, base_file_eof),
        Max(Len(src), MaxSegEnd(segments_argument)))

LnCap == 2 + 2 * LnThreshold + total_diff_length

Saturated == base_ln >= LnCap \/ head_ln >= LnCap

\* does serving a read of property p need _calculated_changes_and_lines?
NeedsCalc(p) ==
    CASE p = "totals" -> FALSE
      [] p \in {"change_summary", "has_changes"} ->
            cached.change_summary = None
      [] p = "lines" -> cached.lines = None /\ ~lines_truncated
      [] p = "segments" ->
            cached.segments = None /\ cached.lines = None /\ ~lines_truncated

\* FileComparison.lines, given the cache holding _calculated_changes_and_lines
lines_value(c) ==
    IF c.lines # None THEN Get(c.lines)
    ELSE IF lines_truncated THEN None
    ELSE Some(Get(c.calc)[2])

\* FileComparison.totals: writes head_totals.diff, then returns both totals
totals_diff_after ==
    IF head_file # None /\ DiffTruthy
    THEN DictGet(Get(diff_data), "totals", 0)
    ELSE head_totals_diff

totals_value ==
    [base |-> IF base_file = None THEN None ELSE Some([diff |-> 0]),
     head |-> IF head_file = None THEN None
              ELSE Some([diff |-> totals_diff_after])]

\* Serve the read of property p with cache c (c.calc is set when p needs it):
\* fill the cached_property entries on the way and record what is returned.
\* Segment.segments raises TypeError when lines is None.
Serve(p, c) ==
    CASE p = "totals" ->
            /\ head_totals_diff' = totals_diff_after
            /\ cached' = c
            /\ returned' = [returned EXCEPT !.totals = @ \cup {totals_value}]
            /\ pc' = "idle"
      [] p = "change_summary" ->
            LET v == IF c.change_summary # None THEN Get(c.change_summary)
                     ELSE Get(c.calc)[1]
            IN  /\ cached' = [c EXCEPT !.change_summary = Some(v)]
                /\ returned' =
                       [returned EXCEPT !.change_summary = @ \cup {v}]
                /\ pc' = "idle"
                /\ UNCHANGED head_totals_diff
      [] p = "has_changes" ->
            LET v == IF c.change_summary # None THEN Get(c.change_summary)
                     ELSE Get(c.calc)[1]
            IN  /\ cached' = [c EXCEPT !.change_summary = Some(v)]
                /\ returned' =
                       [returned EXCEPT !.has_changes = @ \cup {AnyValue(v)}]
                /\ pc' = "idle"
                /\ UNCHANGED head_totals_diff
      [] p = "lines" ->
            LET v == lines_value(c)
            IN  /\ cached' = [c EXCEPT !.lines = Some(v)]
                /\ returned' = [returned EXCEPT !.lines = @ \cup {v}]
                /\ pc' = "idle"
                /\ UNCHANGED head_totals_diff
      [] p = "segments" ->
            IF c.segments # None
            THEN /\ cached' = c
                 /\ returned' =
                        [returned EXCEPT !.segments = @ \cup {Get(c.segments)}]
                 /\ pc' = "idle"
                 /\ UNCHANGED head_totals_diff
            ELSE LET v == lines_value(c)
                     c1 == [c EXCEPT !.lines = Some(v)]
                 IN  IF v = None
                     THEN /\ cached' = c1
                          /\ pc' = "raised"
                          /\ UNCHANGED <<returned, head_totals_diff>>
                     ELSE LET sg == Segment_segments(Get(v))
                          IN  /\ cached' = [c1 EXCEPT !.segments = Some(sg)]
                              /\ returned' =
                                   [returned EXCEPT !.segments = @ \cup {sg}]
                              /\ pc' = "idle"
                              /\ UNCHANGED head_totals_diff

inputvars == <<base_file, head_file, diff_data, src, bypass_max_diff,
               should_search_for_changes>>
tmvars == <<segments, base_ln, head_ln, summary, lines, calls, spin>>

\* _calculated_changes_and_lines computed afresh on every use
calc_cached_Never == FALSE

\* _calculated_changes_and_lines already in __dict__
calc_cached == cached.calc # None

\* A read that is answered without a traversal: the property does not need
\* _calculated_changes_and_lines, or that is cached, or the traversal is
\* skipped and it is (Counter(), []).
ReadNow(p) ==
    /\ pc = "idle"
    /\ ~NeedsCalc(p) \/ calc_cached \/ ~should_traverse
    /\ Serve(p, IF NeedsCalc(p) /\ ~calc_cached
                THEN [cached EXCEPT !.calc = Some(<<<<>>, <<>>>>)]
                ELSE cached)
    /\ UNCHANGED <<inputvars, tmvars, pending, traversals, headers, cmpvars,
                   restvars>>

\* A read that enters FileComparisonTraverseManager(...).apply(visitors)
ReadTraverse(p) ==
    /\ pc = "idle"
    /\ NeedsCalc(p) /\ ~calc_cached /\ should_traverse
    /\ pc' = "traversing"
    /\ pending' = p
    /\ segments' = segments_argument
    /\ base_ln' = InitLn(segments_argument, 1)
    /\ head_ln' = InitLn(segments_argument, 3)
    /\ summary' = <<>>
    /\ lines' = <<>>
    /\ calls' = <<>>
    /\ spin' = 0
    /\ traversals' = traversals + 1
    /\ UNCHANGED <<inputvars, head_totals_diff, cached, returned, headers,
                   cmpvars, restvars>>

\* FileComparisonTraverseManager.__init__ keeping the caller's list
shares_segments_NoCopy == TRUE

\* `self.segments = copy.deepcopy(segments)`: the manager's list and the
\* lists in it are objects of its own, so what it pops is not popped from
\* the list the FileComparison holds
shares_segments == FALSE

\* the diff data of the FileComparison after the manager's list became segs
diff_data_after(segs) ==
    IF shares_segments /\ diff_data # None
          /\ "segments" \in DOMAIN Get(diff_data)
    THEN Some([Get(diff_data) EXCEPT !["segments"] = segs])
    ELSE diff_data

\* One iteration of the while loop of apply()
TraverseStep ==
    /\ pc = "traversing"
    /\ ~traverse_finished(segments, base_ln, head_ln)
    /\ IF pop_line_raises(segments, base_ln, head_ln)
       THEN /\ pc' = "raised"
            /\ UNCHANGED <<tmvars, pending, diff_data>>
       ELSE LET a == visit_args(segments, base_ln, head_ln)
            IN  /\ summary' = ChangeSummaryVisit(summary, a)
                /\ diff_data' = diff_data_after(
                       drop_exhausted(popped(segments, base_ln, head_ln)))
                /\ IF Saturated
                   THEN /\ spin' = IF spin = 1 THEN 2 ELSE 1
                        /\ UNCHANGED <<lines, calls>>
                   ELSE /\ lines' = LineComparisonVisit(lines, a)
                        /\ calls' = Append(calls, a)
                        /\ UNCHANGED spin
                /\ base_ln' = Min(next_base_ln(a.value, base_ln), LnCap)
                /\ head_ln' = Min(next_head_ln(a.value, head_ln), LnCap)
                /\ segments' =
                       drop_exhausted(popped(segments, base_ln, head_ln))
                /\ UNCHANGED <<pc, pending>>
    /\ UNCHANGED <<base_file, head_file, src, bypass_max_diff,
                   should_search_for_changes, head_totals_diff, cached,
                   returned, traversals, headers, cmpvars, restvars>>

\* apply() returns: _calculated_changes_and_lines is stored and the pending
\* read is served
TraverseReturn ==
    /\ pc = "traversing"
    /\ traverse_finished(segments, base_ln, head_ln)
    /\ Serve(pending, [cached EXCEPT !.calc = Some(<<summary, lines>>)])
    /\ pending' = "none"
    /\ UNCHANGED <<inputvars, tmvars, traversals, headers, cmpvars,
                   restvars>>

\* the segments are serialized: the header of each is read
ReadHeaders ==
    /\ pc = "idle"
    /\ cached.segments # None
    /\ headers = None
    /\ headers' =
          Some([g \in 1..Len(Get(cached.segments)) |->
                   Segment_header(Get(cached.segments)[g])])
    /\ UNCHANGED <<inputvars, tmvars, head_totals_diff, pc, pending, cached,
                   returned, traversals, cmpvars, restvars>>

-----------------------------------------------------------------------------
(* The inputs a FileComparison is constructed from *)

MaxFileLen == 2     \* cells per report file when every pair of files is tried
MaxSegLines == 2    \* lines of one diff segment
MaxStart == 2       \* position of the first diff segment
MaxGap == 1         \* unchanged lines between two diff segments

\* report cells: no coverage, a miss, a hit
Cells == {None, ListLine(IntCov(0)), ListLine(IntCov(1))}

SeqsUpTo(S, n) == UNION {[1..k -> S] : k \in 0..n}

ReportFiles(n) == {None} \cup {Some(f) : f \in SeqsUpTo(Cells, n)}

\* line values of a diff segment and of the source
AddedLine == <<"+", "a">>
RemovedLine == <<"-", "b">>
ContextLine == <<" ", "c">>
PlainSrc == <<"x">>
SrcOddities == {<<"-", "y">>, <<"+", "z">>, <<>>}

SegLineLists == SeqsUpTo({AddedLine, RemovedLine, ContextLine}, MaxSegLines)
                    \ {<<>>}

\* the lines of ls on the base side, and on the head side
NotAdded(ls) == Cardinality({i \in 1..Len(ls) : ls[i][1] # "+"})
NotRemoved(ls) == Cardinality({i \in 1..Len(ls) : ls[i][1] # "-"})

\* The hunk the provider reports for the lines ls changed at position
\* (b, h) of the base and the head file: a side of length 0 is reported
\* with the number of the line before it.
Hunk(ls, b, h, asStr) ==
    LET cell(v) == IF asStr THEN StrCell(v) ELSE IntCell(v)
        blen == NotAdded(ls)
        hlen == NotRemoved(ls)
    IN  [header |-> <<cell(IF blen = 0 THEN b - 1 ELSE b), cell(blen),
                      cell(IF hlen = 0 THEN h - 1 ELSE h), cell(hlen)>>,
         lines |-> ls]

OneHunk(ls, p, asStr) == <<Hunk(ls, p, p, asStr)>>

TwoHunks(l1, l2, p, g, asStr) ==
    << Hunk(<<l1>>, p, p, asStr),
       Hunk(<<l2>>, p + NotAdded(<<l1>>) + g,
                    p + NotRemoved(<<l1>>) + g, asStr) >>

SegmentLists ==
    {OneHunk(ls, p, asStr) :
        ls \in SegLineLists, p \in 1..MaxStart, asStr \in BOOLEAN}
    \cup
    {TwoHunks(l1, l2, p, g, asStr) :
        l1 \in {AddedLine, RemovedLine, ContextLine},
        l2 \in {AddedLine, RemovedLine, ContextLine},
        p \in 1..MaxStart, g \in 1..MaxGap, asStr \in BOOLEAN}

\* the length of the head source: no diff above reaches past its end
SrcLen == Max(MaxStart + MaxGap + 1, MaxStart + MaxSegLines - 1)

\* the head source of n lines: plain lines, at most one of them odd
Sources(n) ==
    {[i \in 1..n |-> PlainSrc]}
    \cup {[i \in 1..n |-> IF i = q THEN odd ELSE PlainSrc] :
            q \in 1..n, odd \in SrcOddities}

\* the head source laid under a diff: plain, or with an odd last line
OverlaySources ==
    {[i \in 1..SrcLen |-> IF i = SrcLen THEN l ELSE PlainSrc] :
        l \in {PlainSrc} \cup SrcOddities}

DiffOf(segs) == Some([segments |-> segs, stats |-> "stats"])

BaseSample == Some(<<ListLine(IntCov(1)), ListLine(IntCov(0)), None,
                     ListLine(IntCov(1))>>)
HeadSample == Some(<<ListLine(IntCov(0)), ListLine(IntCov(0)),
                     ListLine(IntCov(1)), JsonLine(FracCov(1, 2))>>)

InitRun ==
    /\ head_totals_diff = 0
    /\ pc = "idle"
    /\ pending = "none"
    /\ segments = <<>>
    /\ base_ln = 1
    /\ head_ln = 1
    /\ summary = <<>>
    /\ lines = <<>>
    /\ calls = <<>>
    /\ spin = 0
    /\ cached = [calc |-> None, change_summary |-> None, lines |-> None,
                 segments |-> None]
    /\ returned = [p \in Props |-> {}]
    /\ traversals = 0
    /\ headers = None

\* every pair of small report files, no diff entry, no source
InitReports ==
    /\ base_file \in ReportFiles(MaxFileLen)
    /\ head_file \in ReportFiles(MaxFileLen)
    /\ diff_data = None
    /\ src = <<>>
    /\ bypass_max_diff = FALSE
    /\ should_search_for_changes \in {None, Some(TRUE), Some(FALSE)}

\* every small diff, with and without the head source
InitDiffs ==
    /\ base_file = BaseSample
    /\ head_file = HeadSample
    /\ \E segs \in SegmentLists :
          /\ diff_data = DiffOf(segs)
          /\ src \in {<<>>} \cup OverlaySources
    /\ bypass_max_diff = FALSE
    /\ should_search_for_changes = None

\* the head source alone (an individual file with no diff entry), and a
\* diff entry that carries no segments
InitSources ==
    /\ base_file \in {None, BaseSample}
    /\ head_file = HeadSample
    /\ diff_data \in {None, Some([stats |-> "stats"]), DiffOf(<<>>)}
    /\ src \in {<<>>} \cup Sources(SrcLen)
    /\ bypass_max_diff \in BOOLEAN
    /\ should_search_for_changes \in {None, Some(FALSE)}

\* a diff of n lines in two segments: n - 1 unchanged lines, then one
\* added line
BigDiff(n) ==
    DiffOf(<< Hunk([i \in 1..(n - 1) |-> ContextLine], 1, 1, FALSE),
              Hunk(<<AddedLine>>, n + 1, n + 1, FALSE) >>)

\* diffs at the truncation threshold
InitBigDiffs ==
    /\ base_file = BaseSample
    /\ head_file = HeadSample
    /\ diff_data \in {BigDiff(MAX_DIFF_SIZE), BigDiff(MAX_DIFF_SIZE + 1)}
    /\ src = <<>>
    /\ bypass_max_diff \in BOOLEAN
    /\ should_search_for_changes = None

\* the documented traversals: an added file whose hunk ends with a context
\* line (header 0,0,1,3), and a newly tracked file of four lines with no
\* diff (head_file_eof = 5, base_file_eof = 0)
AddedFileSegment(asStr) ==
    LET cell(v) == IF asStr THEN StrCell(v) ELSE IntCell(v)
    IN  [header |-> <<cell(0), cell(0), cell(1), cell(3)>>,
         lines |-> <<<<"+", "a">>, <<"+", "b">>, <<" ", "c">>>>]

FourLineFile ==
    Some(<<ListLine(IntCov(1)), JsonLine(IntCov(0)), None,
           ListLine(FracCov(0, 2))>>)

InitDocumented ==
    /\ base_file \in {None, BaseSample}
    /\ head_file \in {None, FourLineFile}
    /\ diff_data \in
          {None} \cup
          {Some([segments |-> <<AddedFileSegment(asStr)>>,
                 stats |-> "stats"]) : asStr \in BOOLEAN} \cup
          {Some([segments |-> <<AddedFileSegment(FALSE)>>,
                 stats |-> "stats", totals |-> 5])}
    /\ src = <<>>
    /\ bypass_max_diff = FALSE
    /\ should_search_for_changes = None

\* no file comparison is read
InitNoFile ==
    /\ base_file = None
    /\ head_file = None
    /\ diff_data = None
    /\ src = <<>>
    /\ bypass_max_diff = FALSE
    /\ should_search_for_changes = None

-----------------------------------------------------------------------------
(* Comparison.files and PullRequestComparison.files: generator functions   *)
(* under cached_property. A generator is known by the class whose function *)
(* made it: "base" (Comparison) or "pr" (PullRequestComparison).           *)

MaxFiles == 2       \* file names in the head report
MaxIterations == 3  \* times the caller reads and iterates files

FileNames == {"a.py", "b.py"}

\* lists of distinct file names
FileLists ==
    {fs \in SeqsUpTo(FileNames, MaxFiles) :
        \A i, j \in 1..Len(fs) : i # j => fs[i] # fs[j]}

Range(f) == {f[i] : i \in 1..Len(f)}

\* the caller evaluates `comparison.files` and starts to iterate the result:
\* cached_property returns what __dict__ holds, or calls the generator
\* function of the object's class and stores the generator it returns
ReadFiles ==
    /\ reads < MaxIterations
    /\ reads' = reads + 1
    /\ IF files_dict # "none"
       THEN /\ it' = files_dict
            /\ UNCHANGED <<files_dict, gen_base, gen_pr>>
       ELSE IF kind = "PullRequestComparison"
       THEN /\ gen_pr' = Some([started |-> FALSE, finished |-> FALSE,
                               files_with_changes |-> <<>>])
            /\ files_dict' = "pr"
            /\ it' = "pr"
            /\ UNCHANGED gen_base
       ELSE /\ gen_base' = Some(0)
            /\ files_dict' = "base"
            /\ it' = "base"
            /\ UNCHANGED gen_pr
    /\ yielded' = <<>>
    /\ UNCHANGED <<kind, head_report_files, changed_files, iterations,
                   redis_value, pull, diff_files, cached_changes, cache_read,
                   redis_sets, head_updates, file_comparison, fcvars,
                   restvars>>

\* the Comparison generator that next() of generator g resumes, and what
\* __dict__["files"] holds then: a PullRequestComparison generator that
\* starts evaluates super().files, which calls Comparison.files anew and
\* stores its generator
resumed_base(g) ==
    IF g = "pr" /\ ~Get(gen_pr).started THEN Some(0) ELSE gen_base

resumed_dict(g) ==
    IF g = "pr" /\ ~Get(gen_pr).started THEN "base" ELSE files_dict

has_next(g) ==
    /\ g = "pr" => ~Get(gen_pr).finished
    /\ Get(resumed_base(g)) < Len(head_report_files)

\* `"/".join(("compare-changed-files", service, username, name, pullid))`
_files_with_changes_hash_key_NoPull ==
    "compare-changed-files" \o "/" \o pull.service \o "/" \o pull.username
        \o "/" \o pull.name

_files_with_changes_hash_key ==
    "compare-changed-files" \o "/" \o pull.service \o "/" \o pull.username
        \o "/" \o pull.name \o "/" \o ToString(pull.pullid)

\* _files_with_changes with the failure not caught for what it is
_files_with_changes_IgnoresFailure(fails) == redis_value

\* _files_with_changes: what the cache holds under the key, None when the
\* key is absent or the connection fails
_files_with_changes(fails) == IF fails THEN None ELSE redis_value

\* the should_search_for_changes a file comparison of the object is given:
\* a Comparison leaves None, a PullRequestComparison sets
\* `file_name in changes if changes is not None else None`
\* the hint with an empty list read as no list
hint_EmptyIsUnknown(file_name, changes) ==
    IF kind # "PullRequestComparison" \/ changes = None
            \/ changes = Some(<<>>)
    THEN None
    ELSE Some(file_name \in Range(Get(changes)))

hint(file_name, changes) ==
    IF kind # "PullRequestComparison" \/ changes = None THEN None
    ELSE Some(file_name \in Range(Get(changes)))

\* the file comparison of a file: its hint, whether reading its
\* change_summary traverses (src is empty), and whether the summary read is
\* non-empty; changed_files are the files a traversal finds changes in
get_file_comparison(file_name, changes) ==
    LET h == hint(file_name, changes)
        traverses == file_name \in diff_files \/ h # Some(FALSE)
    IN  [name |-> file_name,
         should_search_for_changes |-> h,
         traverses |-> traverses,
         change_summary |-> traverses /\ file_name \in changed_files]

\* next() of the iterated generator yields get_file_comparison(file_name);
\* the first file comparison of a PullRequestComparison reads the cache
NextYield ==
    /\ it # "none"
    /\ has_next(it)
    /\ \E fails \in IF kind = "PullRequestComparison" /\ cached_changes = None
                     THEN BOOLEAN ELSE {FALSE} :
       LET file_name == head_report_files[Get(resumed_base(it)) + 1]
           changes == IF cached_changes # None THEN Get(cached_changes)
                      ELSE _files_with_changes(fails)
           fc == get_file_comparison(file_name, changes)
       IN  /\ gen_base' = Some(Get(resumed_base(it)) + 1)
           /\ files_dict' = resumed_dict(it)
           /\ cached_changes' = IF kind = "PullRequestComparison"
                                 THEN Some(changes) ELSE cached_changes
           /\ cache_read' =
                 IF kind = "PullRequestComparison" /\ cached_changes = None
                 THEN (IF fails THEN "failed" ELSE "ok")
                 ELSE cache_read
           /\ file_comparison' = Some(fc)
           /\ gen_pr' =
                 IF it = "pr"
                 THEN Some([started |-> TRUE, finished |-> FALSE,
                            files_with_changes |->
                               IF fc.change_summary
                               THEN Append(Get(gen_pr).files_with_changes,
                                           file_name)
                               ELSE Get(gen_pr).files_with_changes])
                 ELSE gen_pr
           /\ yielded' = Append(yielded, file_name)
    /\ UNCHANGED <<kind, head_report_files, changed_files, it, reads,
                   iterations, redis_value, pull, diff_files, redis_sets,
                   head_updates, fcvars, restvars>>

\* next() of the iterated generator raises StopIteration; a
\* PullRequestComparison generator that reaches its end first stores
\* files_with_changes in the cache
NextStop ==
    /\ it # "none"
    /\ ~has_next(it)
    /\ IF it = "pr" /\ ~Get(gen_pr).finished
       THEN /\ gen_base' = resumed_base(it)
            /\ files_dict' = resumed_dict(it)
            /\ gen_pr' = Some([Get(gen_pr) EXCEPT !.started = TRUE,
                                                  !.finished = TRUE])
            /\ redis_value' = Some(Get(gen_pr).files_with_changes)
            /\ redis_sets' =
                   Append(redis_sets,
                          [key |-> _files_with_changes_hash_key,
                           value |-> Get(gen_pr).files_with_changes,
                           ex |-> 86400])
       ELSE UNCHANGED <<gen_base, files_dict, gen_pr, redis_value,
                        redis_sets>>
    /\ iterations' = Append(iterations, yielded)
    /\ yielded' = <<>>
    /\ it' = "none"
    /\ UNCHANGED <<kind, head_report_files, changed_files, reads, pull,
                   diff_files, cached_changes, cache_read, head_updates,
                   file_comparison, fcvars, restvars>>

MaxHeadUpdates == 1     \* times the head of the pull moves

\* a commit is pushed to the pull: the head report and the provider diff
\* change, and the next request builds a new PullRequestComparison for the
\* pull; the cache keeps what it holds
PullHeadUpdate ==
    /\ kind = "PullRequestComparison"
    /\ head_updates < MaxHeadUpdates
    /\ head_updates' = head_updates + 1
    /\ changed_files' \in SUBSET Range(head_report_files)
    /\ diff_files' \in SUBSET Range(head_report_files)
    /\ files_dict' = "none"
    /\ gen_base' = None
    /\ gen_pr' = None
    /\ it' = "none"
    /\ yielded' = <<>>
    /\ cached_changes' = None
    /\ cache_read' = "none"
    /\ redis_sets' = <<>>
    /\ file_comparison' = None
    /\ UNCHANGED <<kind, head_report_files, reads, iterations, redis_value,
                   pull, fcvars, restvars>>

Pulls ==
    {[service |-> "github", username |-> "codecov", name |-> "api",
      pullid |-> 1],
     [service |-> "gitlab", username |-> "codecov", name |-> "worker",
      pullid |-> 12]}

InitCalls ==
    /\ files_dict = "none"
    /\ gen_base = None
    /\ gen_pr = None
    /\ it = "none"
    /\ yielded = <<>>
    /\ reads = 0
    /\ iterations = <<>>
    /\ redis_value = None
    /\ cached_changes = None
    /\ cache_read = "none"
    /\ redis_sets = <<>>
    /\ head_updates = 0
    /\ file_comparison = None

\* no comparison object is iterated
InitNoComparison ==
    /\ kind = "Comparison"
    /\ head_report_files = <<>>
    /\ changed_files = {}
    /\ diff_files = {}
    /\ pull \in {p \in Pulls : p.pullid = 1}
    /\ InitCalls

InitComparison ==
    /\ kind \in {"Comparison", "PullRequestComparison"}
    /\ head_report_files \in FileLists
    /\ changed_files \in SUBSET Range(head_report_files)
    /\ diff_files = {}
    /\ pull \in {p \in Pulls : p.pullid = 1}
    /\ InitCalls

InitPullFiles ==
    /\ kind = "PullRequestComparison"
    /\ head_report_files \in FileLists
    /\ changed_files \in SUBSET Range(head_report_files)
    /\ diff_files \in SUBSET Range(head_report_files)
    /\ pull \in Pulls
    /\ InitCalls

NextComparison ==
    \/ ReadFiles
    \/ NextYield
    \/ NextStop

NextPullFiles ==
    \/ ReadFiles
    \/ NextYield
    \/ NextStop
    \/ PullHeadUpdate


-----------------------------------------------------------------------------
(* PullRequestComparison: the pseudo-comparison properties, the commits,   *)
(* the reports and validate(). A read ends with <<"return", v>> or         *)
(* <<"raise", e>>. Which commits have a record, and what the report store, *)
(* the provider and the configuration answer, is drawn at construction.    *)

Return(v) == <<"return", v>>
Raise(e) == <<"raise", e>>
Raised(o) == o[1] = "raise"

\* shared.helpers.yaml.walk: the value at the key path, else_ without it
RECURSIVE walk(_, _, _)
walk(_dict, keys, else_) ==
    IF keys = <<>> THEN _dict
    ELSE IF Head(keys) \in DOMAIN _dict
    THEN walk(_dict[Head(keys)], Tail(keys), else_)
    ELSE else_

\* utils.config.get_config of a setting that is absent or set
get_config(setting, default) ==
    IF setting = None THEN default ELSE Get(setting)

\* is_pseudo_comparison with the setting off unless configured
is_pseudo_comparison_DefaultOff ==
    LET allowed == walk(IF repository_yaml = None THEN <<>>
                        ELSE Get(repository_yaml),
                        <<"codecov", "allow_pseudo_compare">>,
                        get_config(site_config, FALSE))
    IN  IF allowed THEN pull_compared_to # None ELSE allowed

\* `walk(...) and bool(self.pull.compared_to)`
is_pseudo_comparison ==
    LET allowed == walk(IF repository_yaml = None THEN <<>>
                        ELSE Get(repository_yaml),
                        <<"codecov", "allow_pseudo_compare">>,
                        get_config(site_config, TRUE))
    IN  IF allowed THEN pull_compared_to # None ELSE allowed

pull_head == "h"    \* pull.head

\* Commit.objects.get(repository=pull.repository, commitid=...) with
\* Commit.DoesNotExist translated
get_commit(commitid) ==
    IF commitid \in commit_records THEN Return(commitid)
    ELSE Raise("MissingComparisonCommit")

\* base_commit looked up by pull.base whatever the comparison is
base_commit_IgnoresPseudo == get_commit(Get(pull_base))

\* base_commit: by pull.compared_to in a pseudo comparison, else pull.base
base_commit ==
    get_commit(IF is_pseudo_comparison THEN Get(pull_compared_to)
               ELSE Get(pull_base))

\* head_commit: by pull.head
head_commit == get_commit(pull_head)

\* base_report: build_report_from_commit(base_commit), NoSuchKey translated
base_report ==
    IF Raised(base_commit) THEN base_commit
    ELSE IF base_build = "NoSuchKey" THEN Raise("MissingComparisonReport")
    ELSE Return(base_build)

\* head_report: the built report with the provider diff applied; the
\* fetch of the diff needs base_commit
head_report ==
    IF Raised(head_commit) THEN head_commit
    ELSE IF head_build = "NoSuchKey" THEN Raise("MissingComparisonReport")
    ELSE IF head_build = "None" THEN Raise("AttributeError")
    ELSE IF Raised(base_commit) THEN base_commit
    ELSE IF compare_fails THEN Raise("TorngitError")
    ELSE Return("Report")

\* validate(): `self.head_report` then `self.base_report`
validate ==
    IF Raised(head_report) THEN head_report
    ELSE IF Raised(base_report) THEN base_report
    ELSE Return("None")

\* pseudo_diff_adjusts_tracked_lines without the comparison of pull.base
\* and pull.compared_to
pseudo_diff_adjusts_tracked_lines_AnyBase ==
    IF ~is_pseudo_comparison
    THEN Return(FALSE)
    ELSE IF Raised(base_report) THEN base_report
    ELSE IF base_report = Return("None") THEN Return(FALSE)
    ELSE IF Raised(head_report) THEN head_report
    ELSE IF pseudo_compare = "raises" THEN Raise("TorngitError")
    ELSE IF pseudo_compare # "files" THEN Return(FALSE)
    ELSE Return(adjusts)

\* pseudo_diff_adjusts_tracked_lines, its conditions in evaluation order
pseudo_diff_adjusts_tracked_lines ==
    IF ~is_pseudo_comparison \/ pull_base = pull_compared_to
    THEN Return(FALSE)
    ELSE IF Raised(base_report) THEN base_report
    ELSE IF base_report = Return("None") THEN Return(FALSE)
    ELSE IF Raised(head_report) THEN head_report
    ELSE IF pseudo_compare = "raises" THEN Raise("TorngitError")
    ELSE IF pseudo_compare # "files" THEN Return(FALSE)
    ELSE Return(adjusts)

Evaluate(name, outcome) ==
    /\ pull_outcomes' = pull_outcomes \cup {<<name, outcome>>}
    /\ UNCHANGED <<repository_yaml, site_config, pull_base, pull_compared_to,
                   commit_records, base_build, head_build, compare_fails,
                   pseudo_compare, adjusts, update_outcomes, shift_calls,
                   fcvars, cmpvars, fetchvars, instvars, purevars>>

ReadIsPseudoComparison ==
    Evaluate("is_pseudo_comparison", Return(is_pseudo_comparison))

ReadBaseCommit == Evaluate("base_commit", base_commit)

ReadHeadCommit == Evaluate("head_commit", head_commit)

Validate == Evaluate("validate", validate)

ReadPseudoDiffAdjustsTrackedLines ==
    Evaluate("pseudo_diff_adjusts_tracked_lines",
             pseudo_diff_adjusts_tracked_lines)

MaxUpdates == 2     \* calls of update_base_report_with_pseudo_diff

\* update_base_report_with_pseudo_diff: base_report, its attribute
\* shift_lines_by_diff, pseudo_diff, then the call
update_base_report_with_pseudo_diff ==
    IF Raised(base_report) THEN base_report
    ELSE IF base_report = Return("None") THEN Raise("AttributeError")
    ELSE IF pseudo_compare = "raises" THEN Raise("TorngitError")
    ELSE Return("None")

\* the shift made with forward=False
shift_lines_by_diff_calls_Backward ==
    IF Raised(update_base_report_with_pseudo_diff) THEN <<>>
    ELSE <<[diff |-> "pseudo_diff", forward |-> FALSE]>>

\* the calls of shift_lines_by_diff that one call of
\* update_base_report_with_pseudo_diff makes
shift_lines_by_diff_calls ==
    IF Raised(update_base_report_with_pseudo_diff) THEN <<>>
    ELSE <<[diff |-> "pseudo_diff", forward |-> TRUE]>>

UpdateBaseReportWithPseudoDiff ==
    /\ Len(update_outcomes) < MaxUpdates
    /\ update_outcomes' =
          Append(update_outcomes, update_base_report_with_pseudo_diff)
    /\ shift_calls' = shift_calls \o shift_lines_by_diff_calls
    /\ UNCHANGED <<repository_yaml, site_config, pull_base, pull_compared_to,
                   commit_records, base_build, head_build, compare_fails,
                   pseudo_compare, adjusts, pull_outcomes, fcvars, cmpvars,
                   fetchvars, instvars, purevars>>

CommitIds == {"c0", "c1"}

InitPull ==
    /\ repository_yaml \in
          {None, Some([codecov |-> [branch |-> "main"]]),
           Some([codecov |-> [allow_pseudo_compare |-> TRUE]]),
           Some([codecov |-> [allow_pseudo_compare |-> FALSE]])}
    /\ site_config \in {None, Some(TRUE), Some(FALSE)}
    /\ pull_base \in {Some(c) : c \in CommitIds}
    /\ pull_compared_to \in {None} \cup {Some(c) : c \in CommitIds}
    /\ commit_records \in SUBSET (CommitIds \cup {pull_head})
    /\ base_build \in {"NoSuchKey", "None", "Report"}
    /\ head_build \in {"NoSuchKey", "None", "Report"}
    /\ compare_fails \in BOOLEAN
    /\ pseudo_compare \in {"raises", "None", "no files", "files"}
    /\ adjusts \in IF pseudo_compare = "files" THEN BOOLEAN ELSE {FALSE}
    /\ pull_outcomes = {}
    /\ update_outcomes = <<>>
    /\ shift_calls = <<>>

\* the pulls of one repository setting whose base is c0
InitShift ==
    /\ InitPull
    /\ site_config = None
    /\ repository_yaml # None
    /\ "allow_pseudo_compare" \in DOMAIN Get(repository_yaml).codecov
    /\ pull_base = Some("c0")
    /\ pull_head \in commit_records
    /\ "c0" \in commit_records

\* no pull comparison is read
InitNoPull ==
    /\ repository_yaml = None
    /\ site_config = None
    /\ pull_base = Some("c0")
    /\ pull_compared_to = None
    /\ commit_records = CommitIds \cup {pull_head}
    /\ base_build = "Report"
    /\ head_build = "Report"
    /\ compare_fails = FALSE
    /\ pseudo_compare = "None"
    /\ adjusts = FALSE
    /\ pull_outcomes = {}
    /\ update_outcomes = <<>>
    /\ shift_calls = <<>>

NextPull ==
    \/ ReadIsPseudoComparison
    \/ ReadBaseCommit
    \/ ReadHeadCommit
    \/ Validate
    \/ ReadPseudoDiffAdjustsTrackedLines

NextShift ==
    \/ NextPull
    \/ UpdateBaseReportWithPseudoDiff

-----------------------------------------------------------------------------
(* Comparison._fetch_comparison_and_reverse_comparison: two get_compare    *)
(* coroutines run by asyncio.gather under async_to_sync, and the           *)
(* properties that read the fetched pair.                                  *)

MaxFetches == 2     \* times the fetches are started on one instance

FetchProps == {"git_commits", "has_unmerged_base_commits", "upload_commits"}

\* `await asyncio.gather(...)` has a result with the first coroutine done
gather_returns_First == comparison_coro = "done"

\* `await asyncio.gather(comparison_coro, reverse_comparison_coro)` has a
\* result once both coroutines are done, and raises once one has failed
gather_returns ==
    comparison_coro = "done" /\ reverse_comparison_coro = "done"

gather_raises ==
    comparison_coro = "failed" \/ reverse_comparison_coro = "failed"

\* upload_commits: the rows filtered by commit id and repository; the
\* queryset that exclude(deleted=True) returns is dropped
upload_commits(git_commits) ==
    {row \in commits_table :
        /\ row.commitid \in {git_commits[i].commitid :
                                i \in 1..Len(git_commits)}
        /\ row.repository = "base"}

\* what a read of property p returns from the fetched pair
fetch_value(p, pair) ==
    CASE p = "git_commits" -> pair[1].commits
      [] p = "has_unmerged_base_commits" -> Len(pair[2].commits) > 1
      [] p = "upload_commits" -> upload_commits(pair[1].commits)

fetch_inputs == <<forward_commits, reverse_commits, commits_table>>

\* a read served from __dict__
ReadFetched(p) ==
    /\ fetch_pending = "none"
    /\ fetch_dict # None
    /\ fetch_outcomes' =
          fetch_outcomes \cup {<<p, Return(fetch_value(p, Get(fetch_dict)))>>}
    /\ UNCHANGED <<fetch_inputs, comparison_coro, reverse_comparison_coro,
                   fetch_pending, fetch_dict, fetch_attempts, fcvars, cmpvars,
                   pullvars, instvars,
                   purevars>>

\* a read that finds nothing in __dict__: both coroutines are created and
\* passed to gather, and the caller blocks in async_to_sync
StartFetch(p) ==
    /\ fetch_pending = "none"
    /\ fetch_dict = None
    /\ fetch_attempts < MaxFetches
    /\ fetch_attempts' = fetch_attempts + 1
    /\ fetch_pending' = p
    /\ comparison_coro' = "running"
    /\ reverse_comparison_coro' = "running"
    /\ UNCHANGED <<fetch_inputs, fetch_dict, fetch_outcomes, fcvars, cmpvars,
                   pullvars, instvars,
                   purevars>>

\* the provider answers the forward request, or the request fails
CompleteForward ==
    /\ fetch_pending # "none"
    /\ comparison_coro = "running"
    /\ comparison_coro' \in {"done", "failed"}
    /\ UNCHANGED <<fetch_inputs, reverse_comparison_coro, fetch_pending,
                   fetch_dict, fetch_attempts, fetch_outcomes, fcvars,
                   cmpvars, pullvars, instvars,
                   purevars>>

CompleteReverse ==
    /\ fetch_pending # "none"
    /\ reverse_comparison_coro = "running"
    /\ reverse_comparison_coro' \in {"done", "failed"}
    /\ UNCHANGED <<fetch_inputs, comparison_coro, fetch_pending, fetch_dict,
                   fetch_attempts, fetch_outcomes, fcvars, cmpvars, pullvars, instvars,
                   purevars>>

\* gather returns both results: cached_property stores the pair and the
\* pending read is served
GatherReturn ==
    /\ fetch_pending # "none"
    /\ gather_returns
    /\ LET pair == <<[commits |-> forward_commits],
                     [commits |-> reverse_commits]>>
       IN  /\ fetch_dict' = Some(pair)
           /\ fetch_outcomes' =
                 fetch_outcomes \cup
                     {<<fetch_pending, Return(fetch_value(fetch_pending, pair))>>}
    /\ fetch_pending' = "none"
    /\ UNCHANGED <<fetch_inputs, comparison_coro, reverse_comparison_coro,
                   fetch_attempts, fcvars, cmpvars, pullvars, instvars,
                   purevars>>

\* what async_to_sync leaves of a coroutine when the awaited call ends:
\* one that is still running is cancelled
left(coro) == IF coro = "running" THEN "cancelled" ELSE coro

\* gather raises the first failure: the read raises and nothing is stored
GatherRaise ==
    /\ fetch_pending # "none"
    /\ gather_raises
    /\ fetch_outcomes' =
          fetch_outcomes \cup {<<fetch_pending, Raise("TorngitError")>>}
    /\ fetch_pending' = "none"
    /\ comparison_coro' = left(comparison_coro)
    /\ reverse_comparison_coro' = left(reverse_comparison_coro)
    /\ UNCHANGED <<fetch_inputs, fetch_dict, fetch_attempts, fcvars, cmpvars,
                   pullvars, instvars,
                   purevars>>

CommitRow(c, state) ==
    [commitid |-> c,
     repository |-> IF state = "fork" THEN "fork" ELSE "base",
     deleted |-> state = "deleted"]

InitCoroutines ==
    /\ comparison_coro = "new"
    /\ reverse_comparison_coro = "new"
    /\ fetch_pending = "none"
    /\ fetch_dict = None
    /\ fetch_attempts = 0
    /\ fetch_outcomes = {}

InitFetch ==
    /\ forward_commits \in
          {<<>>, <<[commitid |-> "c1"]>>, <<[commitid |-> "c2"]>>,
           <<[commitid |-> "c1"], [commitid |-> "c2"]>>}
    /\ reverse_commits \in
          {<<[commitid |-> "c0"]>>,
           <<[commitid |-> "c0"], [commitid |-> "c3"]>>}
    /\ \E st \in [CommitIds \cup {"c2"} ->
                     {"absent", "live", "deleted", "fork"}] :
          commits_table =
              {CommitRow(c, st[c]) :
                  c \in {d \in DOMAIN st : st[d] # "absent"}}
    /\ InitCoroutines

\* no fetch is made
InitNoFetch ==
    /\ forward_commits = <<>>
    /\ reverse_commits = <<>>
    /\ commits_table = {}
    /\ InitCoroutines

NextFetch ==
    \/ \E p \in FetchProps : ReadFetched(p)
    \/ \E p \in FetchProps : StartFetch(p)
    \/ CompleteForward
    \/ CompleteReverse
    \/ GatherReturn
    \/ GatherRaise

-----------------------------------------------------------------------------
(* One Comparison instance and the operations called on it. base_report,   *)
(* head_report and _fetch_comparison_and_reverse_comparison are cached     *)
(* properties: the body runs when __dict__ has no entry, and its result is *)
(* stored when it returns. A state st of the instance carries __dict__,    *)
(* how often each body ran, and whether the call at hand has raised.       *)

MaxCalls == 3       \* operations called on one instance

BaseAnswers == {"Report", "None", "NoSuchKey"}  \* build_report_from_commit
HeadAnswers == {"Report", "NoSuchKey"}

\* `self._fetch_comparison_and_reverse_comparison`; ok: gather returns
read_fetched(st, ok) ==
    IF st.raised \/ "_fetch_comparison_and_reverse_comparison" \in st.dict
    THEN st
    ELSE [st EXCEPT
            !.fetched = @ + 1,
            !.dict = IF ok
                     THEN @ \cup {"_fetch_comparison_and_reverse_comparison"}
                     ELSE @,
            !.raised = ~ok]

\* the body of base_report
build_base_report(st, answer) ==
    [st EXCEPT !.base_built = @ + 1, !.raised = answer = "NoSuchKey"]

\* `self.base_report`; a report that is None is stored as well
read_base_report(st, answer) ==
    IF st.raised \/ "base_report" \in st.dict THEN st
    ELSE LET r == build_base_report(st, answer)
         IN  IF r.raised THEN r
             ELSE [r EXCEPT !.dict = @ \cup {"base_report"}]

\* the body of head_report: the report is built, the diff is read from
\* git_comparison and applied
build_head_report(st, answer, ok) ==
    LET b == [st EXCEPT !.head_built = @ + 1]
    IN  IF answer = "NoSuchKey" THEN [b EXCEPT !.raised = TRUE]
        ELSE LET f == read_fetched(b, ok)
             IN  IF f.raised THEN f ELSE [f EXCEPT !.applied = @ + 1]

\* head_report as a plain property
read_head_report_Property(st, answer, ok) ==
    IF st.raised THEN st ELSE build_head_report(st, answer, ok)

\* `self.head_report`
read_head_report(st, answer, ok) ==
    IF st.raised \/ "head_report" \in st.dict THEN st
    ELSE LET r == build_head_report(st, answer, ok)
         IN  IF r.raised THEN r
             ELSE [r EXCEPT !.dict = @ \cup {"head_report"}]

\* get_file_comparison: head_report, git_comparison, then base_report in
\* the test and in the lookup
file_comparison_reads(st, b, h, ok) ==
    LET st1 == read_fetched(read_head_report(st, h, ok), ok)
    IN  read_base_report(read_base_report(st1, b), b)

\* has_unmerged_base_commits, a cached property of its own
read_has_unmerged_base_commits(st, ok) ==
    IF st.raised \/ "has_unmerged_base_commits" \in st.dict THEN st
    ELSE LET r == read_fetched(st, ok)
         IN  IF r.raised THEN r
             ELSE [r EXCEPT !.dict = @ \cup {"has_unmerged_base_commits"}]

\* the reads an operation makes, in the order of its code
reads_of(op, st, b, h, ok) ==
    CASE op = "validate" ->
            read_base_report(read_head_report(st, h, ok), b)
      [] op = "totals" ->
            LET st1 == read_base_report(read_base_report(st, b), b)
            IN  read_head_report(read_head_report(st1, h, ok), h, ok)
      [] op = "files" ->
            file_comparison_reads(read_head_report(st, h, ok), b, h, ok)
      [] op = "get_file_comparison" -> file_comparison_reads(st, b, h, ok)
      [] op = "git_commits" -> read_fetched(st, ok)
      [] op = "has_unmerged_base_commits" ->
            read_has_unmerged_base_commits(st, ok)

\* an operation is called; the report store and the provider answer
Call(op) ==
    /\ Len(instance_calls) < MaxCalls
    /\ \E b \in BaseAnswers, h \in HeadAnswers, ok \in BOOLEAN :
          LET r == reads_of(op, instance, b, h, ok)
          IN  /\ instance' = [r EXCEPT !.raised = FALSE]
              /\ instance_calls' = Append(instance_calls, <<op, ~r.raised>>)
    /\ UNCHANGED <<fcvars, cmpvars, pullvars, fetchvars, purevars>>

CallValidate == Call("validate")

ReadTotals == Call("totals")

IterateFiles == Call("files")

CallGetFileComparison == Call("get_file_comparison")

ReadGitCommits == Call("git_commits")

ReadHasUnmergedBaseCommits == Call("has_unmerged_base_commits")

\* Comparison.__init__: nothing is built or fetched yet
InitInstance ==
    /\ instance = [dict |-> {}, base_built |-> 0, head_built |-> 0,
                   applied |-> 0, fetched |-> 0, raised |-> FALSE]
    /\ instance_calls = <<>>

NextInstance ==
    \/ CallValidate
    \/ ReadTotals
    \/ IterateFiles
    \/ CallGetFileComparison
    \/ ReadGitCommits
    \/ ReadHasUnmergedBaseCommits

-----------------------------------------------------------------------------
(* ComparisonReport.sort_impacted_files. An impacted file is kept as its   *)
(* place in the input list and its value for the sort parameter: None or a *)
(* number.                                                                 *)

MaxImpactedFiles == 3   \* files in the list that is sorted
MaxCoverage == 2        \* largest value of the sort parameter

ParameterValues == {None} \cup {Some(v) : v \in 0..MaxCoverage}

\* `if getattr(file, parameter_value)`: None and 0 are falsy
has_coverage(file) == file.value # None /\ Get(file.value) # 0

\* list.sort places x behind the elements it does not precede: the sort is
\* stable, with reverse as well
RECURSIVE insert(_, _, _)
insert(x, s, is_reversed) ==
    IF s = <<>> THEN <<x>>
    ELSE IF \/ ~is_reversed /\ Get(x.value) < Get(Head(s).value)
            \/ is_reversed /\ Get(x.value) > Get(Head(s).value)
         THEN <<x>> \o s
         ELSE <<Head(s)>> \o insert(x, Tail(s), is_reversed)

\* sorted(s, key=value, reverse=is_reversed)
RECURSIVE sorted(_, _)
sorted(s, is_reversed) ==
    IF s = <<>> THEN <<>>
    ELSE insert(s[Len(s)], sorted(SubSeq(s, 1, Len(s) - 1), is_reversed),
                is_reversed)

sort_impacted_files(files, direction) ==
    LET files_with_coverage == SelectSeq(files, has_coverage)
        files_without_coverage ==
            SelectSeq(files, LAMBDA f : ~has_coverage(f))
        is_reversed == direction = "descending"
    IN  sorted(files_with_coverage, is_reversed) \o files_without_coverage

SortImpactedFiles ==
    /\ sorted_files = None
    /\ impacted_files # <<>>
    /\ sorted_files' =
          Some(sort_impacted_files(impacted_files, direction_value))
    /\ UNCHANGED <<impacted_files, direction_value, archivevars,
                   resolvevars, coveragevars, fcvars, cmpvars, pullvars,
                   fetchvars, instvars>>

InitSort ==
    /\ \E n \in 1..MaxImpactedFiles :
          \E values \in [1..n -> ParameterValues] :
             impacted_files = [i \in 1..n |-> [id |-> i, value |-> values[i]]]
    /\ direction_value \in {"ascending", "descending"}
    /\ sorted_files = None

\* get_comparison_data_from_archive catching the failure of the read only
get_comparison_data_from_archive_ReadOnly ==
    CASE archive.state = "unreadable" -> Return([type |-> "dict"])
      [] archive.state = "unparsable" -> Raise("JSONDecodeError")
      [] OTHER -> Return(archive.data)

\* get_comparison_data_from_archive: json.loads(read_file(path)), and {}
\* when either raises
get_comparison_data_from_archive ==
    IF archive.state \in {"unreadable", "unparsable"}
    THEN Return([type |-> "dict"])
    ELSE Return(archive.data)

\* ComparisonReport.files
ComparisonReport_files ==
    IF report_storage_path = None \/ report_storage_path = Some("")
    THEN Return(<<>>)
    ELSE LET report_data == get_comparison_data_from_archive
         IN  IF Raised(report_data) THEN report_data
             ELSE IF report_data[2].type # "dict"
                  THEN Raise("AttributeError")
                  ELSE Return(DictGet(report_data[2], "files", <<>>))

\* the first read of the cached property
ReadReportFiles ==
    /\ files_outcome = None
    /\ files_outcome' = Some(ComparisonReport_files)
    /\ UNCHANGED <<sortvars, report_storage_path, archive, resolvevars,
                   coveragevars, fcvars, cmpvars, pullvars, fetchvars,
                   instvars>>

\* the lists of impacted files an archived comparison may hold
ArchivedFiles ==
    {<<>>, <<[head_name |-> "a.py"]>>,
     <<[head_name |-> "a.py"], [head_name |-> "b.py"]>>}

InitArchive ==
    /\ report_storage_path \in {None, Some(""), Some("compare/1.json")}
    /\ archive \in
          {[state |-> "unreadable"], [state |-> "unparsable"],
           [state |-> "parsed", data |-> [type |-> "list"]],
           [state |-> "parsed", data |-> [type |-> "dict"]]}
          \cup {[state |-> "parsed",
                 data |-> [type |-> "dict", files |-> fs]] :
                    fs \in ArchivedFiles}
    /\ files_outcome = None

\* Report.get(filename): the file of that name, or None
report_get(report, filename) ==
    IF filename # None /\ Get(filename) \in DOMAIN report
    THEN Some(report[Get(filename)])
    ELSE None

\* the base file looked up by the previous name first
resolve_base_file_PrefersBefore ==
    IF base_report_files = None THEN None
    ELSE LET report == Get(base_report_files)
             renamed == IF gfc_diff_data # None
                        THEN report_get(report,
                                DictGet(Get(gfc_diff_data), "before", None))
                        ELSE None
         IN  IF renamed # None THEN renamed
             ELSE report_get(report, Some(gfc_file_name))

\* get_file_comparison: the base file, by the name of the head file and,
\* failing that and with a diff entry, by the entry's "before"
resolve_base_file ==
    IF base_report_files = None THEN None
    ELSE LET report == Get(base_report_files)
             base_file_ == report_get(report, Some(gfc_file_name))
         IN  IF /\ base_file_ = None
                /\ gfc_diff_data # None
                /\ DOMAIN Get(gfc_diff_data) # {}
             THEN report_get(report,
                             DictGet(Get(gfc_diff_data), "before", None))
             ELSE base_file_

GetFileComparison ==
    /\ gfc_base_file = None
    /\ gfc_base_file' = Some(resolve_base_file)
    /\ UNCHANGED <<sortvars, archivevars, base_report_files, gfc_file_name,
                   gfc_diff_data, coveragevars, fcvars, cmpvars, pullvars,
                   fetchvars, instvars>>

BaseNames == {"a.py", "old.py"}

InitResolve ==
    /\ base_report_files \in
          {None} \cup
          {Some([n \in names |-> [report |-> "base", name |-> n]]) :
              names \in SUBSET BaseNames}
    /\ gfc_file_name \in {"a.py", "b.py"}
    /\ gfc_diff_data \in
          {None, Some([type |-> "modified"]),
           Some([type |-> "modified", before |-> None]),
           Some([type |-> "modified", before |-> Some("old.py")]),
           Some([type |-> "modified", before |-> Some("a.py")]),
           Some([type |-> "new", before |-> Some("gone.py")])}
    /\ gfc_base_file = None

InitNoResolve ==
    /\ base_report_files = None
    /\ gfc_file_name = "a.py"
    /\ gfc_diff_data = None
    /\ gfc_base_file = None

NextResolve == GetFileComparison

-----------------------------------------------------------------------------
(* The "coverage" field of a file: the class of each line of its report *)

MaxHitCount == 2
MaxDenominator == 2
MaxReportLines == 2

\* get_coverage: the code of the class, or None when no branch returns
get_coverage(_coverage) ==
    IF ~_coverage.str /\ _coverage.n = 1 THEN Some(1)
    ELSE IF ~_coverage.str /\ _coverage.n = 0 THEN Some(0)
    ELSE IF _coverage.str
         THEN LET partial == CeilDiv(_coverage.n, _coverage.d)
              IN  IF partial = 0 THEN Some(0) ELSE Some(2)
         ELSE None

\* resolve_content for "coverage": one entry for each line of the report
ResolveCoverage ==
    /\ coverage_field = None
    /\ coverage_field' =
          Some([i \in 1..Len(file_report_lines) |->
                   [line |-> i,
                    coverage |-> get_coverage(file_report_lines[i])]])
    /\ UNCHANGED <<file_report_lines, sortvars, archivevars, resolvevars,
                   fcvars, cmpvars, pullvars, fetchvars, instvars>>

\* hit counts and the fractions "n/d" of partially covered lines
RawCoverages ==
    {IntCov(n) : n \in 0..MaxHitCount}
        \cup {FracCov(n, d) : n \in 0..MaxHitCount, d \in 1..MaxDenominator}

InitCoverage ==
    /\ file_report_lines \in SeqsUpTo(RawCoverages, MaxReportLines)
    /\ coverage_field = None

InitNoCoverage ==
    /\ file_report_lines = <<>>
    /\ coverage_field = None

NextCoverage == ResolveCoverage

\* nothing is sorted and no archived comparison is read
InitNoPure ==
    /\ InitNoResolve
    /\ InitNoCoverage
    /\ impacted_files = <<>>
    /\ direction_value = "ascending"
    /\ sorted_files = None
    /\ report_storage_path = None
    /\ archive = [state |-> "unreadable"]
    /\ files_outcome = None

NextReport ==
    \/ SortImpactedFiles
    \/ ReadReportFiles

-----------------------------------------------------------------------------
(* The specifications *)

\* nothing but the file comparison, or the files generators, is read
InitNoRest == InitNoPull /\ InitNoFetch /\ InitInstance /\ InitNoPure

InitFiles == InitRun /\ InitNoFile /\ InitComparison /\ InitNoRest

ComparisonSpec == InitFiles /\ [][NextComparison]_vars

InitPullFilesSpec == InitRun /\ InitNoFile /\ InitPullFiles /\ InitNoRest

PullFilesSpec == InitPullFilesSpec /\ [][NextPullFiles]_vars

InitPullSpec ==
    /\ InitRun /\ InitNoFile /\ InitNoComparison
    /\ InitPull /\ InitNoFetch /\ InitInstance /\ InitNoPure

InitFetchSpec ==
    /\ InitRun /\ InitNoFile /\ InitNoComparison
    /\ InitNoPull /\ InitFetch /\ InitInstance /\ InitNoPure

InitReportSpec ==
    /\ InitRun /\ InitNoFile /\ InitNoComparison
    /\ InitNoPull /\ InitNoFetch /\ InitInstance
    /\ InitSort /\ InitArchive /\ InitNoResolve /\ InitNoCoverage

InitNoReport ==
    /\ impacted_files = <<>>
    /\ direction_value = "ascending"
    /\ sorted_files = None
    /\ report_storage_path = None
    /\ archive = [state |-> "unreadable"]
    /\ files_outcome = None

InitResolveSpec ==
    /\ InitRun /\ InitNoFile /\ InitNoComparison
    /\ InitNoPull /\ InitNoFetch /\ InitInstance
    /\ InitNoReport /\ InitResolve /\ InitNoCoverage

InitCoverageSpec ==
    /\ InitRun /\ InitNoFile /\ InitNoComparison
    /\ InitNoPull /\ InitNoFetch /\ InitInstance
    /\ InitNoReport /\ InitNoResolve /\ InitCoverage

CoverageSpec == InitCoverageSpec /\ [][NextCoverage]_vars

ResolveSpec == InitResolveSpec /\ [][NextResolve]_vars

ReportSpec == InitReportSpec /\ [][NextReport]_vars

InitShiftSpec ==
    /\ InitRun /\ InitNoFile /\ InitNoComparison
    /\ InitShift /\ InitNoFetch /\ InitInstance /\ InitNoPure

ShiftSpec == InitShiftSpec /\ [][NextShift]_vars

InitInstanceSpec == InitRun /\ InitNoFile /\ InitNoComparison /\ InitNoRest

InstanceSpec == InitInstanceSpec /\ [][NextInstance]_vars

FetchSpec == InitFetchSpec /\ [][NextFetch]_vars

PullSpec == InitPullSpec /\ [][NextPull]_vars

InitFC ==
    /\ InitRun
    /\ \/ InitReports
       \/ InitDiffs
       \/ InitSources
       \/ InitBigDiffs
       \/ InitDocumented

Init == InitFC /\ InitNoComparison /\ InitNoRest

Next ==
    \/ \E p \in Props : ReadNow(p)
    \/ \E p \in Props : ReadTraverse(p)
    \/ TraverseStep
    \/ TraverseReturn

Spec == Init /\ [][Next]_vars

-----------------------------------------------------------------------------
(* Segment.segments on files read with their source: the lines of interest *)
(* are the positions where the head report differs from the base report,   *)
(* and the lines of a hunk at the top of the file                          *)

MaxSegmentFile == 15    \* lines of the file
MaxInterest == 3        \* positions whose coverage changes

\* a report file of n hits, the cells at the positions in S being misses
HitsBut(S, n) ==
    Some([i \in 1..n |-> ListLine(IntCov(IF i \in S THEN 0 ELSE 1))])

PlainSource(n) == [i \in 1..n |-> PlainSrc]

\* coverage changed at Python indices 5 and 40 of a file of 44 lines
InitFarApart ==
    /\ base_file = HitsBut({}, 44)
    /\ head_file = HitsBut({6, 41}, 44)
    /\ src = PlainSource(44)
    /\ diff_data = None

InitNearby ==
    /\ base_file = HitsBut({}, MaxSegmentFile)
    /\ \E S \in SUBSET (1..MaxSegmentFile) :
          /\ Cardinality(S) <= MaxInterest
          /\ head_file = HitsBut(S, MaxSegmentFile)
    /\ src = PlainSource(MaxSegmentFile)
    /\ diff_data \in {None,
                      DiffOf(OneHunk(<<RemovedLine, AddedLine>>, 1, FALSE))}

\* a file that the diff adds, of two lines
InitAddedOnly ==
    /\ base_file = None
    /\ head_file = HitsBut({}, 2)
    /\ src = <<>>
    /\ diff_data = DiffOf(OneHunk(<<AddedLine, AddedLine>>, 1, FALSE))

InitSegments ==
    /\ InitRun
    /\ InitFarApart \/ InitNearby \/ InitAddedOnly
    /\ bypass_max_diff = TRUE
    /\ should_search_for_changes = None
    /\ InitNoComparison
    /\ InitNoRest

NextSegments ==
    \/ ReadNow("segments")
    \/ ReadTraverse("segments")
    \/ TraverseStep
    \/ TraverseReturn
    \/ ReadHeaders

SegmentSpec == InitSegments /\ [][NextSegments]_vars

\* the three traversal modes on a few inputs: diff only, source with a diff
\* overlaid, source alone; the second source line is plain or odd
ModeSegmentLists ==
    {OneHunk(<<RemovedLine, AddedLine>>, 1, FALSE),
     TwoHunks(ContextLine, AddedLine, 2, 1, TRUE)}

ModeSources ==
    {[i \in 1..SrcLen |-> IF i = 2 THEN l ELSE PlainSrc] :
        l \in {PlainSrc} \cup SrcOddities}

InitModes ==
    /\ base_file = BaseSample
    /\ head_file = HeadSample
    /\ diff_data \in {None} \cup {DiffOf(segs) : segs \in ModeSegmentLists}
    /\ src \in {<<>>} \cup ModeSources
    /\ bypass_max_diff = FALSE
    /\ should_search_for_changes = None

\* apply() runs on once entered: the loop takes its next turn, and the
\* property read returns when the loop has ended.
InitFair == InitRun /\ InitModes /\ InitNoComparison /\ InitNoRest

FairSpec ==
    /\ InitFair
    /\ [][Next]_vars
    /\ WF_vars(TraverseStep)
    /\ WF_vars(TraverseReturn)

\* A cursor is held at LnCap only in a traversal that never returns.
CapOnlyWhenLooping == spin # 0 => pc = "traversing"

-----------------------------------------------------------------------------
(* apply() as a function: the summary and the lines the two visitors hold  *)
(* when the loop ends                                                      *)

\* one turn of the `while not self.traverse_finished()` loop on the manager
\* state <<segments, base_ln, head_ln>> and the two visitors' state
apply_turn(st) ==
    LET a == visit_args(st[1], st[2], st[3])
    IN  << drop_exhausted(popped(st[1], st[2], st[3])),
           next_base_ln(a.value, st[2]),
           next_head_ln(a.value, st[3]),
           ChangeSummaryVisit(st[4], a),
           LineComparisonVisit(st[5], a) >>

\* at most n turns of the loop, stopping when traverse_finished
RECURSIVE apply_turns(_, _)
apply_turns(st, n) ==
    IF traverse_finished(st[1], st[2], st[3]) THEN st
    ELSE IF n = 1 THEN apply_turn(st)
    ELSE apply_turns(apply_turns(st, n \div 2), n - (n \div 2))

\* every turn moves a cursor forward, and no cursor of a returning
\* traversal reaches LnCap
apply(segs, b, h, counter, acc) ==
    LET st == apply_turns(<<segs, b, h, counter, acc>>, 2 * LnCap + 2)
    IN  <<st[4], st[5]>>

full_traversal ==
    apply(segments_argument, InitLn(segments_argument, 1),
          InitLn(segments_argument, 3), <<>>, <<>>)

-----------------------------------------------------------------------------
(* Properties *)

\* the coverage class of cell i of a report file, None without coverage
ClassAt(report_file, i) ==
    LET line == _get_line(report_file, Some(i))
    IN  IF line = None THEN None ELSE Some(LineType(Get(line)[1]))

\* line positions present in both report files whose classes differ
Differing ==
    {i \in 1..Min(base_file_eof, head_file_eof) - 1 :
        /\ ClassAt(base_file, i) # None
        /\ ClassAt(head_file, i) # None
        /\ ClassAt(base_file, i) # ClassAt(head_file, i)}

\* head count minus base count of bucket k over the differing positions
ExpectedDelta(k) ==
    Cardinality({i \in Differing :
                    coverage_type_map(Get(ClassAt(head_file, i))) = k})
    - Cardinality({i \in Differing :
                    coverage_type_map(Get(ClassAt(base_file, i))) = k})

AllZero(counter) == \A k \in Buckets : Count(counter, k) = 0

NoDiffNoSource == diff_data = None /\ src = <<>>

\* a report file of one line of integer coverage n
OneLine(n) == Some(<<ListLine(IntCov(n))>>)
OneHit == OneLine(1)
OneMiss == OneLine(0)

Prefixed(value) ==
    /\ value # None
    /\ Get(value) # <<>>
    /\ Get(value)[1] \in {"+", "-"}

\* C3: a visit changes the summary only when the line is not prefixed '+'
\* or '-' and its base and head report lines both exist with different
\* classes; then the bucket of the base class loses 1 and the bucket of the
\* head class gains 1; every other visit leaves the summary unchanged.
C3_SummaryVisitorRule ==
    [][ (pc = "traversing" /\ Len(calls') = Len(calls) + 1) =>
        LET a == calls'[Len(calls')]
            base_line == _get_line(base_file, a.base_ln)
            head_line == _get_line(head_file, a.head_ln)
        IN  IF /\ ~Prefixed(a.value)
               /\ base_line # None
               /\ head_line # None
               /\ LineType(Get(base_line)[1]) # LineType(Get(head_line)[1])
            THEN LET from == coverage_type_map(LineType(Get(base_line)[1]))
                     to == coverage_type_map(LineType(Get(head_line)[1]))
                 IN  \A k \in Buckets :
                        Count(summary', k) =
                            Count(summary, k)
                            - (IF k = from THEN 1 ELSE 0)
                            + (IF k = to THEN 1 ELSE 0)
            ELSE summary' = summary ]_vars

C3_Witness ==
    /\ base_file = Some(<<ListLine(IntCov(0)), ListLine(IntCov(1))>>)
    /\ head_file = Some(<<ListLine(IntCov(1)), ListLine(IntCov(1))>>)
    /\ pc = "traversing"
    /\ Len(calls) = 2
    /\ summary = ("misses" :> -1) @@ ("hits" :> 1)

\* C4 as claimed: a traversal of a well-formed input, once started, ends
\* (apply returns or raises), whatever the text of the source lines.
C4_ApplyTerminates == (pc = "traversing") ~> (pc # "traversing")

\* the (base_ln, head_ln) pairs of the visitor invocations so far
call_numbers == [i \in 1..Len(calls) |-> <<calls[i].base_ln, calls[i].head_ln>>]

\* C5 as claimed: the single segment with header (0,0,1,3) and lines
\* '+a', '+b', ' c', traversed without source, invokes the visitors with
\* (None,1), (None,2), (1,3) in that order.
C5_AddedFileLineNumbers ==
    ( /\ diff_data # None
      /\ segments_argument \in {<<AddedFileSegment(TRUE)>>,
                                <<AddedFileSegment(FALSE)>>}
      /\ src = <<>>
      /\ Len(calls) >= 3 )
    => SubSeq(call_numbers, 1, 3) =
          << <<None, Some(1)>>, <<None, Some(2)>>, <<Some(1), Some(3)>> >>

\* a traversal has run to its end and its visitor invocations are in calls
traversal_returned == traversals = 1 /\ cached.calc # None

NoBaseFiveHead ==
    /\ base_file = None
    /\ head_file = FourLineFile
    /\ NoDiffNoSource

\* C6 as claimed: with base_file_eof = 0, head_file_eof = 5, no segments and
\* no source, the visitors are invoked exactly for head lines 1, 2, 3, 4 in
\* order, with base_ln null in every invocation.
C6_HeadOnlyBaseNull ==
    (NoBaseFiveHead /\ traversal_returned) =>
        call_numbers = [i \in 1..4 |-> <<None, Some(i)>>]

\* C6 amended: with no base file, no segments and no source the visitors
\* are invoked exactly for head lines 1 .. head_file_eof - 1 in order (1, 2,
\* 3, 4 for head_file_eof = 5); base_ln equals head_ln in every invocation,
\* the line value is null and no base report line exists for it.
C6_HeadOnlyBaseCounts ==
    (base_file = None /\ NoDiffNoSource /\ traversal_returned) =>
        /\ call_numbers =
              [i \in 1..Max(head_file_eof - 1, 0) |-> <<Some(i), Some(i)>>]
        /\ \A i \in 1..Len(calls) :
              /\ calls[i].value = None
              /\ _get_line(base_file, calls[i].base_ln) = None

C6_Witness ==
    /\ NoBaseFiveHead
    /\ head_file_eof = 5
    /\ base_file_eof = 0
    /\ traversal_returned
    /\ Len(calls) = 4

\* C7 as claimed: when the traversal starts, the cursors are at
\* max(1, base_start) and max(1, head_start) of the first segment's header,
\* and both at 1 when there are no segments.
C7_CursorsStartAtHeader ==
    (pc = "traversing" /\ calls = <<>> /\ spin = 0) =>
        IF segments_argument # <<>>
        THEN /\ base_ln = Max(1, Int_(segments_argument[1].header[1]))
             /\ head_ln = Max(1, Int_(segments_argument[1].header[3]))
        ELSE base_ln = 1 /\ head_ln = 1

\* C8: a file whose segments hold more than 170 lines and whose
\* bypass_max_diff is false has lines null and the change_summary of the
\* full traversal, which is what it yields with bypass_max_diff true; with
\* 170 lines or fewer, or with bypass_max_diff true, lines is the list the
\* traversal builds.
C8_TruncationIsDisplayOnly ==
    DiffTruthy =>
        /\ \A v \in returned.lines :
              v = IF total_diff_length > 170 /\ ~bypass_max_diff
                  THEN None ELSE Some(full_traversal[2])
        /\ \A c \in returned.change_summary :
              (total_diff_length > 170 /\ ~bypass_max_diff) =>
                  c = full_traversal[1]

C8_Witness ==
    /\ total_diff_length = 171
    /\ ~bypass_max_diff
    /\ returned.lines = {None}
    /\ returned.change_summary # {}
    /\ returned.change_summary = {full_traversal[1]}
    /\ ~AllZero(full_traversal[1])

\* C9: on one instance, whatever properties are read and in whatever order,
\* the traversal runs at most once and every read of a property returns the
\* value of its first read.
C9_Memoized ==
    /\ traversals <= 1
    /\ \A p \in Props : Cardinality(returned[p]) <= 1

C9_Witness ==
    /\ traversals = 1
    /\ \A p \in Props \ {"segments"} : returned[p] # {}
    /\ \/ returned.segments # {}
       \/ cached.lines = Some(None)
    /\ \A p \in Props \ {"segments"} : ENABLED ReadNow(p)

\* C10 as claimed: when every read of the files of one comparison object
\* was iterated until exhausted, each iteration yielded the file names of
\* the head report, so a second iteration yields the same names as the
\* first.
C10_FilesRestartable ==
    (reads = Len(iterations)) =>
        \A i \in 1..Len(iterations) : iterations[i] = head_report_files

\* the indices of the lines of interest of ls: coverage class differs, or
\* the line is added or removed
OfInterest(ls) ==
    {i \in 1..Len(ls) :
        \/ coverage(ls[i]).base # coverage(ls[i]).head
        \/ ls[i].added
        \/ ls[i].removed}

\* i and j are joined by indices of I at most 6 apart
Chained(I, i, j) ==
    \A k \in I :
        (Min(i, j) <= k /\ k < Max(i, j)) =>
            \E m \in I : k < m /\ m <= k + 6

\* the segment that holds index i of a list of n lines whose lines of
\* interest are at the indices I, as the indices it spans
SpanOf(I, n, i) ==
    LET cluster == {j \in I : Chained(I, i, j)}
        first == CHOOSE j \in cluster : \A k \in cluster : j <= k
        last == CHOOSE j \in cluster : \A k \in cluster : k <= j
    IN  <<Max(first - 3, 1), Min(last + 3, n)>>

\* C11: Segment.segments yields one segment per cluster of lines of interest,
\* in ascending order; two lines of interest share a segment iff every gap
\* between successive lines of interest from one to the other is at most 6;
\* the segment of a cluster spans max(first-3, 0) .. min(last+3, len-1);
\* lines of interest at indices 5 and 40 give two segments.
C11_SegmentGrouping ==
    \A segs \in returned.segments :
        LET ls == Get(Get(cached.lines))
            I == OfInterest(ls)
            span == [i \in I |-> SpanOf(I, Len(ls), i)]
            spans == {span[i] : i \in I}
        IN  /\ Len(segs) = Cardinality(spans)
            /\ \A g \in 1..Len(segs) :
                  \E sp \in spans :
                      /\ segs[g]._lines = SubSeq(ls, sp[1], sp[2])
                      /\ Cardinality({t \in spans : t[1] < sp[1]}) = g - 1
            /\ \A i, j \in I : (span[i] = span[j]) <=> Chained(I, i, j)

C11_Witness ==
    /\ Len(src) = 44
    /\ returned.segments # {}
    /\ \A segs \in returned.segments :
          /\ Len(segs) = 2
          /\ Len(segs[1]._lines) = 7
          /\ segs[1]._lines[1].head_ln = Some(3)
          /\ segs[2]._lines[Len(segs[2]._lines)].head_ln = Some(44)

-----------------------------------------------------------------------------
(* PullRequestComparison properties *)

OutcomesOf(name) == {o[2] : o \in {q \in pull_outcomes : q[1] = name}}

\* the repository yaml value if present, else the site value, else true
EffectiveAllowPseudoCompare ==
    IF /\ repository_yaml # None
       /\ "allow_pseudo_compare" \in DOMAIN Get(repository_yaml).codecov
    THEN Get(repository_yaml).codecov.allow_pseudo_compare
    ELSE IF site_config # None THEN Get(site_config) ELSE TRUE

\* C12: is_pseudo_comparison is false whenever pull.compared_to is null,
\* whatever the repository yaml and the site configuration say, and it is
\* true exactly when the effective allow_pseudo_compare setting (the yaml
\* value if present, else the site value, else true) permits it and
\* compared_to is set.
C12_PseudoComparison ==
    \A o \in OutcomesOf("is_pseudo_comparison") :
        /\ ~Raised(o)
        /\ pull_compared_to = None => o[2] = FALSE
        /\ o[2] = TRUE <=>
              EffectiveAllowPseudoCompare /\ pull_compared_to # None

C12_Witness ==
    /\ Return(TRUE) \in OutcomesOf("is_pseudo_comparison")
    /\ repository_yaml = Some([codecov |-> [branch |-> "main"]])
    /\ site_config = None
    /\ pull_compared_to = Some("c1")

\* C19: validate() fails with MissingComparisonReport when the head or the
\* base report cannot be located, and returns normally when both can.
C19_ValidateReports ==
    \A o \in OutcomesOf("validate") :
        IF head_build = "Report" /\ base_build = "Report"
        THEN o = Return("None")
        ELSE o = Raise("MissingComparisonReport")

\* the five conditions of pseudo_diff_adjusts_tracked_lines
AllFiveHold ==
    /\ is_pseudo_comparison
    /\ pull_base # pull_compared_to
    /\ base_build = "Report" /\ head_build = "Report"
    /\ pseudo_compare = "files"
    /\ adjusts

\* C20 as stated: pseudo_diff_adjusts_tracked_lines is true iff the five
\* conditions hold, and false in every other case.
C20_AdjustsIffAllFive ==
    \A o \in OutcomesOf("pseudo_diff_adjusts_tracked_lines") :
        o = Return(AllFiveHold)

\* the read needs a report or a diff that cannot be had
ReadRaises ==
    /\ is_pseudo_comparison
    /\ pull_base # pull_compared_to
    /\ \/ Get(pull_compared_to) \notin commit_records
       \/ base_build = "NoSuchKey"
       \/ /\ base_build = "Report"
          /\ \/ pull_head \notin commit_records
             \/ head_build # "Report"
             \/ compare_fails
             \/ pseudo_compare = "raises"

\* C20: a read of pseudo_diff_adjusts_tracked_lines that completes returns
\* true iff the five conditions hold and false otherwise; the read raises
\* instead exactly when the comparison is a pseudo comparison with
\* base # compared_to and the base commit record or the base report is
\* missing, or the base report is there and the head commit record is
\* missing, the head report cannot be built or a provider diff cannot be
\* fetched.
C20_AdjustsWhenReadCompletes ==
    \A o \in OutcomesOf("pseudo_diff_adjusts_tracked_lines") :
        /\ Raised(o) <=> ReadRaises
        /\ ~Raised(o) => o = Return(AllFiveHold)

C20_Witness ==
    /\ Return(TRUE) \in OutcomesOf("pseudo_diff_adjusts_tracked_lines")
    /\ commit_records = {"c1", pull_head}
    /\ pull_base = Some("c0")
    /\ pull_compared_to = Some("c1")

-----------------------------------------------------------------------------
(* The cache of files with changes *)

\* the key of the pull, written out
ExpectedKey ==
    IF pull.pullid = 1 THEN "compare-changed-files/github/codecov/api/1"
    ELSE "compare-changed-files/gitlab/codecov/worker/12"

\* the yielded files whose change summary, as their file comparison
\* computes it, is non-empty
YieldedWithChanges ==
    LET NonEmpty(f) ==
            get_file_comparison(f, Get(cached_changes)).change_summary
    IN  SelectSeq(yielded, NonEmpty)

\* C13: while PullRequestComparison.files is iterated the changed-files list
\* is written to the cache exactly once per comparison object, in the step
\* that follows the last yielded file comparison; the write holds exactly
\* the head names of the yielded files whose change summary is non-empty,
\* under the key made of provider, owner, repository and pull id, with an
\* expiry of 86400 seconds. An iteration that is abandoned writes nothing.
C13_CacheWrittenOnce ==
    [][/\ Len(redis_sets') > Len(redis_sets) =>
            /\ redis_sets = <<>>
            /\ it = "pr" /\ it' = "none"
            /\ yielded = head_report_files
            /\ redis_sets' = <<[key |-> ExpectedKey,
                                value |-> YieldedWithChanges,
                                ex |-> 86400]>>
            /\ redis_value' = Some(YieldedWithChanges)
       /\ it = "pr" /\ it' = "none" /\ head_updates' = head_updates =>
            Len(redis_sets') = 1
       /\ it # "none" /\ it' # "none" /\ reads' # reads =>
            redis_sets' = redis_sets]_vars

C13_Witness ==
    /\ head_updates = 1
    /\ Len(head_report_files) = 2
    /\ Len(redis_sets) = 1
    /\ redis_sets[1].value = <<head_report_files[2]>>
    /\ pull.pullid = 12

\* C14: whenever a file comparison has should_search_for_changes False from
\* the cache and its traversal is skipped, the change summary it reports
\* (empty) is the one a full traversal of the current reports gives, that
\* is, the file is not one a traversal finds changes in.
C14_SkippedOnlyWhenUnchanged ==
    file_comparison # None =>
        LET fc == Get(file_comparison)
        IN  fc.should_search_for_changes = Some(FALSE) /\ ~fc.traverses
                => fc.name \notin changed_files

-----------------------------------------------------------------------------
(* The visitors and the lines of a diff hunk *)

\* the visit made by the step, when the step is one
Visited == calls'[Len(calls')]

IsVisit == pc = "traversing" /\ Len(calls') = Len(calls) + 1

\* C15 as stated: no line delivered to the visitors with the in-diff flag
\* true changes any bucket of the change summary.
C15_InDiffNeverCounts ==
    [][IsVisit /\ Visited.is_diff => summary' = summary]_vars

\* C15: a line delivered with the in-diff flag true changes the change
\* summary exactly when it is a context line of the hunk (not prefixed '+' or
\* '-') whose base and head report lines both exist with different classes;
\* an added or removed line never changes any bucket.
C15_InDiffContextCounts ==
    [][IsVisit /\ Visited.is_diff =>
        LET base_line == _get_line(base_file, Visited.base_ln)
            head_line == _get_line(head_file, Visited.head_ln)
        IN  summary' # summary <=>
               /\ ~Prefixed(Visited.value)
               /\ base_line # None
               /\ head_line # None
               /\ LineType(Get(base_line)[1]) # LineType(Get(head_line)[1])
      ]_vars

C15_Witness ==
    /\ Len(calls) = 2
    /\ calls[1].is_diff /\ Prefixed(calls[1].value)
    /\ calls[2].is_diff /\ ~Prefixed(calls[2].value)
    /\ summary = ("hits" :> -1) @@ ("misses" :> 1)

\* the list holds well-formed line comparisons
WellFormed(ls) ==
    \A i \in 1..Len(ls) :
        /\ ~(ls[i].added /\ ls[i].removed)
        /\ ls[i].base_ln = None <=> ls[i].added
        /\ ls[i].head_ln = None <=> ls[i].removed

\* C16: every LineComparison a traversal produces has at most one of added
\* and removed true, a null base_ln exactly when it is added and a null
\* head_ln exactly when it is removed.
C16_LineComparisonShape ==
    /\ WellFormed(lines)
    /\ \A v \in returned.lines : v # None => WellFormed(Get(v))

C16_Witness ==
    \E v \in returned.lines :
        /\ v # None
        /\ Len(Get(v)) = 2
        /\ Get(v)[1].removed
        /\ Get(v)[1].head_ln = None /\ Get(v)[1].base_ln # None
        /\ Get(v)[2].added
        /\ Get(v)[2].base_ln = None /\ Get(v)[2].head_ln # None

-----------------------------------------------------------------------------
(* The provider fetches *)

BothDone == comparison_coro = "done" /\ reverse_comparison_coro = "done"

OneFailed == comparison_coro = "failed" \/ reverse_comparison_coro = "failed"

\* C17: the forward and the reverse fetch are started in the same step and
\* joined: in every interleaving of their completions a result is stored
\* or returned to a reader only when both fetches are done, and the blocked
\* read ends either that way or, when a fetch has failed, by raising with
\* nothing stored.
C17_FetchesJoined ==
    [][/\ (comparison_coro' = "running" /\ comparison_coro # "running")
            <=> (reverse_comparison_coro' = "running"
                    /\ reverse_comparison_coro # "running")
       /\ fetch_dict' # fetch_dict =>
            /\ BothDone
            /\ fetch_dict' = Some(<<[commits |-> forward_commits],
                                    [commits |-> reverse_commits]>>)
       /\ \A o \in fetch_outcomes' \ fetch_outcomes :
            IF Raised(o[2]) THEN OneFailed /\ fetch_dict' = None
            ELSE BothDone /\ fetch_dict' # None
       /\ fetch_pending # "none" /\ fetch_pending' = "none" =>
            IF OneFailed
            THEN /\ fetch_dict' = None
                 /\ <<fetch_pending, Raise("TorngitError")>>
                        \in fetch_outcomes'
            ELSE BothDone /\ fetch_dict' # None
      ]_vars

C17_Witness ==
    /\ fetch_attempts = 2
    /\ fetch_dict # None
    /\ <<"git_commits", Raise("TorngitError")>> \in fetch_outcomes
    /\ <<"git_commits", Return(forward_commits)>> \in fetch_outcomes
    /\ Len(forward_commits) = 2

\* C18: upload_commits returns exactly the commits whose id is in the
\* forward diff's commit list, that are in the base commit's repository and
\* are not marked deleted; a deleted commit is never in the result.
C18_UploadCommits ==
    \A o \in fetch_outcomes :
        o[1] = "upload_commits" /\ ~Raised(o[2]) =>
            o[2][2] =
                {row \in commits_table :
                    /\ \E i \in 1..Len(forward_commits) :
                          forward_commits[i].commitid = row.commitid
                    /\ row.repository = "base"
                    /\ ~row.deleted}

-----------------------------------------------------------------------------
(* Line lookups, hunk ranges and the properties of a file comparison *)

\* the line numbers the visitors were invoked with, per side
LookedUp ==
    {<<base_file, calls[i].base_ln>> : i \in 1..Len(calls)}
        \cup {<<head_file, calls[i].head_ln>> : i \in 1..Len(calls)}

\* C25: the report-line lookup returns null whenever the report file is
\* absent, the line number is null, or the line number lies outside
\* 1..(number of lines of the file), for every line number the traversal
\* produces, 0 included.
C25_LookupOutOfRangeIsNull ==
    \A q \in LookedUp :
        (\/ q[1] = None
         \/ q[2] = None
         \/ Get(q[2]) \notin 1..Len(Get(q[1])))
            => _get_line(q[1], q[2]) = None

\* a stated length, zero counted as 1
StatedLength(cell) == IF Int_(cell) = 0 THEN 1 ELSE Int_(cell)

\* C26: when deciding whether a cursor is inside the front segment, a stated
\* base or head length of zero, given as the integer 0 or as the string "0",
\* counts as 1, so the range [start, start + len) is never empty.
C26_ZeroLengthCountsAsOne ==
    (pc = "traversing" /\ segments # <<>>) =>
        LET hd == segments[1].header
        IN  traversing_diff(segments, base_ln, head_ln) <=>
               \/ /\ Int_(hd[1]) <= base_ln
                  /\ base_ln < Int_(hd[1]) + StatedLength(hd[2])
               \/ /\ Int_(hd[3]) <= head_ln
                  /\ head_ln < Int_(hd[3]) + StatedLength(hd[4])

\* the visits of unchanged lines whose report lines differ in class
ChangedVisits ==
    {i \in 1..Len(calls) :
        LET base_line == _get_line(base_file, calls[i].base_ln)
            head_line == _get_line(head_file, calls[i].head_ln)
        IN  /\ ~Prefixed(calls[i].value)
            /\ base_line # None
            /\ head_line # None
            /\ LineType(Get(base_line)[1]) # LineType(Get(head_line)[1])}

\* C27: for a FileComparison that performs the traversal, has_changes is
\* true whenever at least one traversed line whose source did not change
\* has base and head report lines of different coverage classes.
C27_HasChangesWhenAnyLineChanged ==
    (traversal_returned /\ ChangedVisits # {}) =>
        \A v \in returned.has_changes : v = TRUE

\* C28: with source supplied and no segments the traversal delivers each
\* source line exactly once, in order, with base_ln = head_ln = its 1-based
\* position, whatever characters the line starts with.
C28_SourceLinesInOrder ==
    (traversal_returned /\ src # <<>> /\ segments_argument = <<>>) =>
        /\ Len(calls) = Len(src)
        /\ \A i \in 1..Len(calls) :
              /\ calls[i].value = Some(src[i])
              /\ calls[i].base_ln = Some(i)
              /\ calls[i].head_ln = Some(i)

\* C29: a read of FileComparison.segments returns a list of segments for
\* every FileComparison, one whose lines is null included; the read that is
\* served without a traversal never fails.
C29_SegmentsNeverFails == ~(pc = "raised" /\ pending = "none")

\* C30: the display segments of a file are contiguous slices of its line
\* comparisons, in ascending order and pairwise disjoint; every line of
\* interest lies in exactly one segment and every segment holds at least
\* one line of interest.
C30_SegmentsPartitionInterest ==
    \A segs \in returned.segments :
        LET ls == Get(Get(cached.lines))
            I == OfInterest(ls)
            Pos(line) == CHOOSE i \in 1..Len(ls) : ls[i] = line
            first == [g \in 1..Len(segs) |-> Pos(segs[g]._lines[1])]
            last == [g \in 1..Len(segs) |->
                        Pos(segs[g]._lines[Len(segs[g]._lines)])]
        IN  /\ \A g \in 1..Len(segs) :
                  /\ segs[g]._lines # <<>>
                  /\ segs[g]._lines = SubSeq(ls, first[g], last[g])
                  /\ \E i \in I : first[g] <= i /\ i <= last[g]
            /\ \A g \in 1..(Len(segs) - 1) : last[g] < first[g + 1]
            /\ \A i \in I :
                  Cardinality({g \in 1..Len(segs) :
                                  first[g] <= i /\ i <= last[g]}) = 1

C30_Witness ==
    /\ Len(src) = MaxSegmentFile
    /\ \E segs \in returned.segments :
          /\ Len(segs) = 2
          /\ Len(segs[1]._lines) = 7
          /\ Len(segs[2]._lines) = 7
          /\ segs[1]._lines[7].head_ln = Some(7)
          /\ segs[2]._lines[1].head_ln = Some(8)

-----------------------------------------------------------------------------
(* The hint a pull comparison gives its file comparisons *)

\* the step makes a file comparison of a PullRequestComparison
MakesFileComparison ==
    /\ kind = "PullRequestComparison"
    /\ Len(yielded') = Len(yielded) + 1

C23_HintFollowsCache ==
    [][MakesFileComparison =>
        Get(file_comparison').should_search_for_changes =
            IF redis_value = None THEN None
            ELSE Some(Get(file_comparison').name \in Range(Get(redis_value)))
      ]_vars

\* C23: the hint follows the list the comparison object read on its first
\* file comparison: true if the name is in it, false if a list was read and
\* does not hold the name (an empty list included), null iff no list was
\* read; and no list was read iff the cache held no value for the pull or
\* the read failed.
C23_HintFollowsListRead ==
    [][MakesFileComparison =>
        LET changes == Get(cached_changes')
            fc == Get(file_comparison')
        IN  /\ fc.should_search_for_changes =
                  IF changes = None THEN None
                  ELSE Some(fc.name \in Range(Get(changes)))
            /\ changes = None <=>
                  redis_value = None \/ cache_read' = "failed"
            /\ changes # None => changes = redis_value
      ]_vars

C23_Witness ==
    /\ cache_read = "ok"
    /\ cached_changes = Some(Some(<<>>))
    /\ file_comparison # None
    /\ Get(file_comparison).should_search_for_changes = Some(FALSE)
    /\ Get(file_comparison).name \in changed_files

-----------------------------------------------------------------------------
(* The commits of a pull comparison *)

\* C21: base_commit is the commit whose id is pull.compared_to when
\* is_pseudo_comparison holds and pull.base otherwise, head_commit the one
\* whose id is pull.head; when that commit has no record in the pull's
\* repository, resolving it fails with MissingComparisonCommit.
C21_CommitsOfThePull ==
    /\ \A o \in OutcomesOf("base_commit") :
          LET id == IF EffectiveAllowPseudoCompare /\ pull_compared_to # None
                    THEN Get(pull_compared_to) ELSE Get(pull_base)
          IN  o = IF id \in commit_records THEN Return(id)
                  ELSE Raise("MissingComparisonCommit")
    /\ \A o \in OutcomesOf("head_commit") :
          o = IF pull_head \in commit_records THEN Return(pull_head)
              ELSE Raise("MissingComparisonCommit")

C21_Witness ==
    /\ Return("c1") \in OutcomesOf("base_commit")
    /\ Raise("MissingComparisonCommit") \in OutcomesOf("head_commit")
    /\ pull_base = Some("c0")
    /\ pull_compared_to = Some("c1")
    /\ commit_records = {"c1"}

-----------------------------------------------------------------------------
(* What one Comparison instance builds and fetches *)

AllCallsSucceeded ==
    \A i \in 1..Len(instance_calls) : instance_calls[i][2]

\* C24: on one Comparison instance, over any sequence of successful calls
\* to validate, totals, files, get_file_comparison, git_commits and
\* has_unmerged_base_commits, the base report is built at most once, the
\* head report is built and has the forward diff applied at most once, and
\* the diff pair is fetched at most once.
C24_BuiltAndFetchedOnce ==
    AllCallsSucceeded =>
        /\ instance.base_built <= 1
        /\ instance.head_built <= 1
        /\ instance.applied <= 1
        /\ instance.fetched <= 1

C24_Witness ==
    /\ AllCallsSucceeded
    /\ instance_calls =
          <<<<"validate", TRUE>>, <<"totals", TRUE>>,
            <<"get_file_comparison", TRUE>>>>
    /\ instance.base_built = 1
    /\ instance.head_built = 1
    /\ instance.applied = 1
    /\ instance.fetched = 1

-----------------------------------------------------------------------------
(* The change summary, the diff data and the cursors during a traversal *)

\* C31: after every step of every traversal the buckets of the change
\* summary sum to zero: hits + misses + partials = 0.
C31_BucketsSumToZero ==
    /\ DOMAIN summary \subseteq Buckets
    /\ Count(summary, "hits") + Count(summary, "misses")
          + Count(summary, "partials") = 0

C31_Witness ==
    /\ pc = "traversing"
    /\ Count(summary, "hits") = -2
    /\ Count(summary, "misses") = 1
    /\ Count(summary, "partials") = 1

\* C32: computing lines or change_summary leaves the diff data handed to
\* the FileComparison unchanged: no step changes diff_data, its segments
\* or total_diff_length, while the traversal pops lines and drops segments
\* on its own copy.
C32_DiffDataUnchanged ==
    [][/\ diff_data' = diff_data
       /\ total_diff_length' = total_diff_length]_vars

\* the traversal has emptied its copy and the caller's segments are whole
C32_Witness ==
    /\ pc = "idle"
    /\ traversals = 1
    /\ segments = <<>>
    /\ diff_data # None
    /\ DictGet(Get(diff_data), "segments", <<>>) # <<>>
    /\ Len(Get(diff_data)["segments"]) = 2
    /\ total_diff_length = 2
    /\ returned.lines # {}

-----------------------------------------------------------------------------
(* Sorting impacted files *)

\* C33: sort_impacted_files returns a permutation of its input in which
\* every file whose value for the sort parameter is None comes after every
\* file with a non-None value, and the files with non-None values (zero
\* included) are ordered by that value, ascending or descending as
\* requested.
C33_SortedNoneLast ==
    sorted_files # None =>
        LET out == Get(sorted_files)
            n == Len(out)
        IN  /\ n = Len(impacted_files)
            /\ \A i \in 1..n : \E j \in 1..n : out[j] = impacted_files[i]
            /\ \A i, j \in 1..n :
                  out[i].value = None /\ out[j].value # None => j < i
            /\ \A i, j \in 1..n :
                  i < j /\ out[i].value # None /\ out[j].value # None =>
                     IF direction_value = "descending"
                     THEN Get(out[i].value) >= Get(out[j].value)
                     ELSE Get(out[i].value) <= Get(out[j].value)

-----------------------------------------------------------------------------
(* Shifting the base report *)

\* the step is a call of update_base_report_with_pseudo_diff
IsUpdateCall == Len(update_outcomes') = Len(update_outcomes) + 1

TheShift == [diff |-> "pseudo_diff", forward |-> TRUE]

\* C34 as stated: shift_lines_by_diff is invoked on the base report by no
\* property read and no method call other than
\* update_base_report_with_pseudo_diff, and each call of that method
\* invokes it exactly once, with the pseudo diff and forward=true.
C34_ShiftOnlyOnUpdate ==
    [][/\ shift_calls' # shift_calls => IsUpdateCall
       /\ IsUpdateCall => shift_calls' = Append(shift_calls, TheShift)
      ]_vars

\* C34: shift_lines_by_diff is invoked on the base report by no property
\* read and no method call other than update_base_report_with_pseudo_diff;
\* each call of that method that returns has invoked it exactly once, with
\* the pseudo diff and forward=true, and a call that raises (the base
\* commit or the base report is missing, the base report is None, or the
\* pseudo diff cannot be fetched) has not invoked it.
C34_ShiftOncePerCompletedUpdate ==
    [][/\ shift_calls' # shift_calls => IsUpdateCall
       /\ IsUpdateCall =>
             LET o == update_outcomes'[Len(update_outcomes')]
                 can_shift ==
                    /\ base_build = "Report"
                    /\ pseudo_compare # "raises"
                    /\ (IF is_pseudo_comparison THEN Get(pull_compared_to)
                        ELSE Get(pull_base)) \in commit_records
             IN  /\ ~Raised(o) <=> can_shift
                 /\ shift_calls' = IF Raised(o) THEN shift_calls
                                   ELSE Append(shift_calls, TheShift)
      ]_vars

C34_Witness ==
    /\ update_outcomes = <<Return("None"), Return("None")>>
    /\ shift_calls = <<TheShift, TheShift>>
    /\ Return(TRUE) \in OutcomesOf("pseudo_diff_adjusts_tracked_lines")
    /\ OutcomesOf("validate") # {}

-----------------------------------------------------------------------------
(* The impacted files read from the archive *)

\* C35: ComparisonReport.files is the empty list when the comparison has
\* no report storage path, and when reading or parsing the archived
\* impacted-file data fails the failure is caught and the result is empty;
\* no error reaches the caller.
C35_ArchiveFailureGivesNoFiles ==
    /\ files_outcome # None
    /\ \/ report_storage_path \in {None, Some("")}
       \/ archive.state \in {"unreadable", "unparsable"}
    => Get(files_outcome) = Return(<<>>)

C35_Witness ==
    /\ files_outcome = Some(Return(<<>>))
    /\ report_storage_path = Some("compare/1.json")
    /\ archive.state = "unparsable"

-----------------------------------------------------------------------------
(* The base file of a file comparison *)

\* C36: get_file_comparison resolves the base file by the head file name
\* and, only when no base file has that name and the file has diff data,
\* by the diff's recorded previous name (before); when the base report is
\* absent the base file is null.
C36_BaseFileResolution ==
    gfc_base_file # None =>
        LET found == Get(gfc_base_file)
            named(n) == Some([report |-> "base", name |-> n])
        IN  IF base_report_files = None THEN found = None
            ELSE IF gfc_file_name \in DOMAIN Get(base_report_files)
                 THEN found = named(gfc_file_name)
                 ELSE IF /\ gfc_diff_data # None
                         /\ "before" \in DOMAIN Get(gfc_diff_data)
                         /\ Get(gfc_diff_data).before # None
                         /\ Get(Get(gfc_diff_data).before)
                               \in DOMAIN Get(base_report_files)
                      THEN found = named(Get(Get(gfc_diff_data).before))
                      ELSE found = None

C36_Witness ==
    /\ gfc_file_name = "b.py"
    /\ gfc_base_file = Some(Some([report |-> "base", name |-> "old.py"]))
    /\ DOMAIN Get(base_report_files) = BaseNames

-----------------------------------------------------------------------------
(* When a file comparison is traversed *)

\* a diff exists, or source was supplied, or the hint is not False
TraversalCalledFor ==
    \/ diff_data # None
    \/ Len(src) > 0
    \/ should_search_for_changes \in {None, Some(TRUE)}

-----------------------------------------------------------------------------
(* The cursors *)

\* the step is an iteration of apply() that visits a line
VisitsALine ==
    /\ pc = "traversing" /\ pc' = "traversing"
    /\ Len(calls') = Len(calls) + 1

\* C38: each traversal step advances only head_ln by 1 for an added line,
\* only base_ln by 1 for a removed line, and both by 1 for any other line;
\* the cursor that is not advanced is left unchanged, and neither cursor
\* ever decreases.
C38_CursorAdvance ==
    [][VisitsALine =>
          LET value == calls'[Len(calls')].value
          IN  /\ IsAdded(value) =>
                    head_ln' = head_ln + 1 /\ base_ln' = base_ln
              /\ IsRemoved(value) =>
                    base_ln' = base_ln + 1 /\ head_ln' = head_ln
              /\ ~IsAdded(value) /\ ~IsRemoved(value) =>
                    head_ln' = head_ln + 1 /\ base_ln' = base_ln + 1
              /\ base_ln' >= base_ln /\ head_ln' >= head_ln
      ]_vars

C38_Witness ==
    /\ pc = "traversing"
    /\ Len(calls) = 2
    /\ IsRemoved(calls[1].value)
    /\ IsAdded(calls[2].value)
    /\ base_ln = Get(calls[1].base_ln) + 1
    /\ head_ln = Get(calls[2].head_ln) + 1

-----------------------------------------------------------------------------
(* The header of a display segment *)

\* the positions of the lines of ls that have a base number, a head number
WithBase(ls) == {i \in 1..Len(ls) : ~ls[i].added /\ ls[i].base_ln # None}
WithHead(ls) == {i \in 1..Len(ls) : ~ls[i].removed /\ ls[i].head_ln # None}

FirstOf(S) == CHOOSE i \in S : \A j \in S : i <= j

\* C39: a display segment's header is (base number of its first line that
\* has one, else 0; count of context plus removed lines; head number of
\* its first line that has one, else 0; count of context plus added
\* lines), and the two counts are the numbers of segment lines that have a
\* base number and a head number.
C39_SegmentHeader ==
    headers # None =>
        \A g \in 1..Len(Get(headers)) :
            LET ls == Get(cached.segments)[g]._lines
                context == {i \in 1..Len(ls) :
                               ~ls[i].added /\ ~ls[i].removed}
                removed == {i \in 1..Len(ls) : IsRemoved(ls[i].value)}
                added == {i \in 1..Len(ls) : IsAdded(ls[i].value)}
            IN  /\ Get(headers)[g] =
                      <<IF WithBase(ls) = {} THEN 0
                        ELSE Get(ls[FirstOf(WithBase(ls))].base_ln),
                        Cardinality(context) + Cardinality(removed),
                        IF WithHead(ls) = {} THEN 0
                        ELSE Get(ls[FirstOf(WithHead(ls))].head_ln),
                        Cardinality(context) + Cardinality(added)>>
                /\ Get(headers)[g][2] = Cardinality(WithBase(ls))
                /\ Get(headers)[g][4] = Cardinality(WithHead(ls))

C39_Witness ==
    /\ headers = Some(<< <<0, 0, 1, 2>> >>)
    /\ base_file = None

-----------------------------------------------------------------------------
(* The coverage class of a report line *)

\* C40: the classifier maps numeric 1 to Hit (1) and numeric 0 to Miss (0),
\* maps a string read as a fraction to Miss when its ceiling is 0 and to
\* Partial (2) otherwise, and maps every raw coverage value of a line to
\* one of Hit, Miss, Partial.
C40_EveryValueClassified ==
    coverage_field # None =>
        \A i \in 1..Len(file_report_lines) :
            LET raw == file_report_lines[i]
                class == Get(coverage_field)[i].coverage
            IN  /\ (~raw.str /\ raw.n = 1) => class = Some(1)
                /\ (~raw.str /\ raw.n = 0) => class = Some(0)
                /\ raw.str =>
                      class = IF CeilDiv(raw.n, raw.d) = 0
                              THEN Some(0) ELSE Some(2)
                /\ class \in {Some(0), Some(1), Some(2)}

\* the same for the values the classifier has a branch for
C40_BranchesAsStated ==
    coverage_field # None =>
        \A i \in 1..Len(file_report_lines) :
            LET raw == file_report_lines[i]
                class == Get(coverage_field)[i].coverage
            IN  /\ (~raw.str /\ raw.n = 1) => class = Some(1)
                /\ (~raw.str /\ raw.n = 0) => class = Some(0)
                /\ raw.str =>
                      class = IF CeilDiv(raw.n, raw.d) = 0
                              THEN Some(0) ELSE Some(2)

\* a line hit twice is given no class
C40_Unclassified ==
    /\ coverage_field # None
    /\ \E i \in 1..Len(file_report_lines) :
          /\ file_report_lines[i] = IntCov(2)
          /\ Get(coverage_field)[i].coverage = None

====
